---- MODULE Spec2Model ----
(***************************************************************************)
(* Verification model of the train-journey planner server                  *)
(* (steventoepoel/planner).  The authoritative server is the latest        *)
(* snapshot, src/unnamed/part_004 (server.js v1.15/1.16); src/server.js    *)
(* is an older snapshot of the same handlers with no time budget and no    *)
(* response cache.                                                         *)
(*                                                                         *)
(* Specifications:                                                         *)
(*   Spec          one /reis-extreme-b request at a time, with the trip    *)
(*                 response cache, the wall clock and the upstream's       *)
(*                 answers as inputs.                                      *)
(*   SpecStations  concurrent callers of fetchStationsCached sharing       *)
(*                 stationCache, stationInFlight and the limitStations     *)
(*                 pool.                                                   *)
(*   SpecTripPool     the limitTrips pool and every code path that issues *)
(*                    an upstream trip call.                               *)
(*   SpecStationPool  the limitStations pool and every code path that      *)
(*                    issues an upstream station call.                     *)
(*   SpecCaches    reads and writes of the four TTL caches (tripCache,     *)
(*                 stationCache with its prefix lookup and sweep, ovCache, *)
(*                 ovCodeCache) as the clock advances.                     *)
(*   SpecCachesFair  SpecCaches with the clock and the setInterval sweep   *)
(*                 taking their steps (weak fairness); requests, and so    *)
(*                 the reads and writes, may stay away.                    *)
(*   SpecFetch     upstream HTTP calls through fetchJsonStrict and         *)
(*                 fetchWithTimeout, with their abort timers.              *)
(*   SpecOv        the departure panel of the page: loadOv, renderOvPanel.  *)
(*   SpecPage      the searches of one page: zoekReis.                      *)
(*   SpecViaPool   concurrent /reis-extreme-b requests on limitTrips.       *)
(*   SpecFanOut    the loop structure of one combination search, counting   *)
(*                 its upstream trip calls.                                *)
(*   SpecBuffer    the best-results buffer of one combination search.      *)
(*   SpecBOptions  the B query of one retained A option and the options    *)
(*                 taken from its answer.                                  *)
(*   SpecOvOrder   renderOvPanel over boards given in any order.            *)
(*   SpecOvFetch   fetchOvTpcSafe for the stop codes of one station.        *)
(*   SpecAuto      loadStations of one input field of the page (app.js).     *)
(*   SpecOverlap   overlapping /reis-extreme-b requests of one cache key and *)
(*                 their writes to the trip response cache.                *)
(*   SpecCap       stationCacheSet on a station cache filled to its cap.     *)
(*   SpecRoute     GET /stations with its prefix fallback, on the station  *)
(*                 resolver of SpecStations.                               *)
(*   SpecOptions   tripToOption, combineOptions and scoreOption on raw     *)
(*                 trips of up to three legs.                              *)
(*   SpecFront     concurrent /reis and /reis-extreme-b requests up to the *)
(*                 settlement of their base query: API key and parameter   *)
(*                 checks, cache key, trip response cache.                 *)
(***************************************************************************)
EXTENDS Integers, Sequences, FiniteSets, TLC

(***************************************************************************)
(* Program constants                                                       *)
(***************************************************************************)
MAX_VIA == 8
TOP_A == 5
TOP_B == 8
MAX_TRANSFER == 20
TARGET == 10
BUDGET_MS == 15000
TRIP_TTL_MS == 20000
BEST_CAP == 80
BEST_KEEP == 55
STATION_TTL_MS == 1800000
STATION_MAX_KEYS == 2000
STATIONS_CONCURRENCY == 4
TRIPS_CONCURRENCY == 6
OV_TTL_MS == 20000
OV_CODE_TTL_OK_MS == 15000
OV_CODE_TTL_ERR_MS == 5000
TRIP_TIMEOUT_MS == 10000
STATION_TIMEOUT_MS == 8000
\* /ov/by-station: merged.slice(0, 25)
OV_MERGED_ROWS == 25
\* fetchOvTpcSafe: for (let attempt = 1; attempt <= 2; attempt++)
OV_ATTEMPTS == 2
\* renderOvPanel: deps.slice(0, 80), transferMin <= 30, transferMin <= 120,
\* within.slice(0, 25), after.slice(0, 8)
OV_SCAN_ROWS == 80
OV_WITHIN_MIN == 30
OV_AFTER_MIN == 120
OV_WITHIN_ROWS == 25
OV_AFTER_ROWS == 8

(***************************************************************************)
(* Bounds of the model                                                     *)
(***************************************************************************)
\* Timetable resolution: timetable instants are counted in ticks, this many
\* to the minute (2: half minutes), so that Math.round really rounds.
TicksPerMin == 2
\* Wall clock: one Tick advances Date.now() by TickMs; at most MaxTicks Ticks.
TickMs == 8000
MaxTicks == 3
\* Longest short answer of the base query, of an A query and of a B query
\* (each answer is a window of a cyclic list of raw trips).
MaxBaseLen == 2
MaxALen == 1
MaxBLen == 2
\* Long base answers (TARGET and more trips) have TARGET + 0..LongExtra trips.
LongExtra == 1
\* SpecStations: callers of fetchStationsCached, resolutions (promises)
\* started in one run, and its clock (StationTick advances Date.now() by
\* StTickMs, at most MaxStTicks times).
NCallers == 2
MaxPromises == 2
StTickMs == 2000000
MaxStTicks == 1
\* SpecTripPool: /reis requests outstanding at once, concurrent
\* /reis-extreme-b requests.  SpecStationPool: station lookups outstanding
\* at once, /debug/ns-stations requests outstanding at once.
MaxReis == 7
NExt == 1
MaxStTasks == 5
MaxDebug == 2
\* SpecFront: concurrent search requests (its runs are shorter than the
\* cache's TTL: the clock stands still).
NReq == 2
\* SpecCaches: cache writes in one run; its clock advances by CacheTickMs,
\* at most MaxCacheTicks times, and once by CacheLeapMs (close to the
\* station cache's TTL).
MaxCacheWrites == 2
CacheTickMs == 10000
MaxCacheTicks == 3
CacheLeapMs == 1790000
\* SpecFetch: concurrent upstream calls, and its clock (FetchTick advances
\* Date.now() by FetchTickMs, at most MaxFetchTicks times).
NFetch == 2
FetchTickMs == 2000
MaxFetchTicks == 7
\* SpecOv: the number of equal departures a departure board may repeat
OvBulk == 9
\* SpecPage: searches started from one page
MaxSearches == 3
\* SpecViaPool: concurrent /reis-extreme-b requests
NVia == 3
\* SpecFanOut: how many more via names than MAX_VIA the base trips may
\* name, and how many more A options than TOP_A an A answer may hold
FanExtra == 1
\* SpecBuffer: distinct journeys the via-stations lead to
NJourneys == 11
\* SpecBOptions: the upstream knows trips via -> to of NBTrips durations.
NBTrips == 9
\* SpecOvOrder: departures of a board given in any order
MaxBoardLen == 3
\* SpecOvFetch: stop codes of the station asked for
NStops == 2
\* SpecAuto: loadStations calls of one input field
MaxLoads == 4
\* SpecOverlap: searches started in one run
MaxStarts == 3

(***************************************************************************)
(* JavaScript values                                                       *)
(***************************************************************************)
\* null / undefined of a numeric field, and a present number
Null == <<>>
Some(n) == <<n>>

\* A timestamp string as the upstream sends it.  k = "ok": an ISO string
\* that Date.parse turns into the instant t (in ticks); f is the spelling
\* (UTC offset suffix), so two different strings can denote one instant.
\* k = "undef": the field is missing; k = "bad": a string Date.parse
\* cannot read (NaN).
Stamp(t, f) == [k |-> "ok", t |-> t, f |-> f]
NoStamp == [k |-> "undef", t |-> 0, f |-> ""]
BadStamp == [k |-> "bad", t |-> 0, f |-> "?"]

\* !s of a string field: undefined is falsy, any non-empty string is truthy
Truthy(s) == s.k # "undef"
\* isFinite(Date.parse(s))
ParseFinite(s) == s.k = "ok"
\* Date.parse(s) in ticks, for a parseable s
DateParse(s) == s.t

\* Math.round(ticks / TicksPerMin): Math.round((b - a) / 60000) of two
\* instants; JavaScript rounds halves towards +infinity (-0.5 -> -0).
Round(n) == (2 * n + TicksPerMin) \div (2 * TicksPerMin)

Min2(a, b) == IF a <= b THEN a ELSE b

\* Array.prototype.slice(0, n)
Take(s, n) == SubSeq(s, 1, Min2(n, Len(s)))

\* Array.prototype.sort with the comparator (a, b) => key(a) - key(b):
\* stable, ascending by key.  keys[i] is the key of s[i].  The entries of
\* the least key come first, in their order in s, then those of the next
\* key, and so on.
StableSort(s, keys) ==
  LET n == Len(s)
      pairs == [i \in 1..n |-> << keys[i], s[i] >>]
      RECURSIVE Build(_)
      Build(vs) ==
        IF vs = {} THEN << >>
        ELSE LET v == CHOOSE v \in vs : \A w \in vs : v <= w
             IN SelectSeq(pairs, LAMBDA x : x[1] = v) \o Build(vs \ {v})
      sorted == Build({keys[i] : i \in 1..n})
  IN [p \in 1..n |-> sorted[p][2]]

\* concatenation of a sequence of sequences: flat() / filter(Boolean) of a
\* list whose entries are <<>> (null) or <<x>>
RECURSIVE Flatten(_)
Flatten(ss) == IF ss = <<>> THEN <<>> ELSE Head(ss) \o Flatten(Tail(ss))

(***************************************************************************)
(* Trip normalizer: tripToOption, combineOptions, optionSignature          *)
(* A raw trip is its list of legs; a leg is                                *)
(* [originName, destName, dep, arr] (origin.name, destination.name,        *)
(* origin.plannedDateTime, destination.plannedDateTime; a missing name is  *)
(* "").  Tracks, delay and product label are presentation fields that no   *)
(* computation reads and are left out.  The field nul tells a leg object   *)
(* ("") from a null entry of the legs list ("leg"); a raw trip record      *)
(* that is itself null is written as the one-entry list NullTrip.          *)
(***************************************************************************)
Leg(o, d, dep, arr) ==
  [originName |-> o, destName |-> d, dep |-> dep, arr |-> arr, nul |-> ""]
\* null in the place of a leg: every read through ?. gives undefined
NullLeg ==
  [originName |-> "", destName |-> "", dep |-> NoStamp, arr |-> NoStamp, nul |-> "leg"]
\* null in the place of a trip record
NullTrip ==
  << [originName |-> "", destName |-> "", dep |-> NoStamp, arr |-> NoStamp, nul |-> "trip"] >>

\* the loop of tripToOption over consecutive legs, from index i on, with
\* the running minimum acc (Null or Some(m))
RECURSIVE MinTransferLoop(_, _, _)
MinTransferLoop(legs, i, acc) ==
  IF i > Len(legs) - 1 THEN acc
  ELSE LET a == legs[i].arr
           b == legs[i + 1].dep
       IN IF ~ParseFinite(a) \/ ~ParseFinite(b)
          THEN MinTransferLoop(legs, i + 1, acc)
          ELSE LET m == Round(DateParse(b) - DateParse(a))
               IN IF acc = Null \/ m < acc[1]
                  THEN MinTransferLoop(legs, i + 1, Some(m))
                  ELSE MinTransferLoop(legs, i + 1, acc)

\* tripToOption(trip): <<>> for null, <<option>> otherwise
tripToOption(trip) ==
  IF Len(trip) = 0 THEN <<>>
  ELSE LET depart == trip[1].dep
           arrive == trip[Len(trip)].arr
       IN IF ~Truthy(depart) \/ ~Truthy(arrive) THEN <<>>
          ELSE IF ~ParseFinite(depart) \/ ~ParseFinite(arrive) THEN <<>>
          ELSE << [mode |-> "trip",
                   durationMin |-> Round(DateParse(arrive) - DateParse(depart)),
                   depart |-> depart,
                   arrive |-> arrive,
                   minTransferMin |-> MinTransferLoop(trip, 1, Null),
                   legs |-> trip] >>

\* tripToOption(trip) throws a TypeError: trip.legs of a null trip, or,
\* past the early returns, l.origin of a null leg in legs.map
tripToOptionThrows(trip) ==
  \/ trip = NullTrip
  \/ /\ tripToOption(trip) # <<>>
     /\ \E i \in 1..Len(trip) : trip[i].nul = "leg"

\* trips.map(tripToOption) throws
NormalizeThrows(trips) == \E i \in 1..Len(trips) : tripToOptionThrows(trips[i])

\* trips.map(tripToOption).filter(Boolean)
Normalize(trips) == Flatten([i \in 1..Len(trips) |-> tripToOption(trips[i])])

\* combineOptions without its last Math.min (optB.minTransferMin)
combineOptions_DropB(optA, optB) ==
  LET depart == optA.depart
      arrive == optB.arrive
  IN IF ~ParseFinite(depart) \/ ~ParseFinite(arrive) THEN <<>>
     ELSE IF ~ParseFinite(optA.arrive) \/ ~ParseFinite(optB.depart) THEN <<>>
     ELSE LET transferMin == Round(DateParse(optB.depart) - DateParse(optA.arrive))
              m1 == IF optA.minTransferMin = Null THEN transferMin
                    ELSE Min2(optA.minTransferMin[1], transferMin)
          IN IF transferMin < 0 THEN <<>>
             ELSE << [mode |-> "combo",
                      durationMin |-> Round(DateParse(arrive) - DateParse(depart)),
                      depart |-> depart,
                      arrive |-> arrive,
                      minTransferMin |-> Some(m1),
                      legs |-> optA.legs \o optB.legs] >>
\* combineOptions(optA, optB): <<>> for null, <<combo>> otherwise
combineOptions(optA, optB) ==
  LET depart == optA.depart
      arrive == optB.arrive
  IN IF ~ParseFinite(depart) \/ ~ParseFinite(arrive) THEN <<>>
     ELSE IF ~ParseFinite(optA.arrive) \/ ~ParseFinite(optB.depart) THEN <<>>
     ELSE LET transferMin == Round(DateParse(optB.depart) - DateParse(optA.arrive))
              m1 == IF optA.minTransferMin = Null THEN transferMin
                    ELSE Min2(optA.minTransferMin[1], transferMin)
              m2 == IF optB.minTransferMin = Null THEN m1
                    ELSE Min2(m1, optB.minTransferMin[1])
          IN IF transferMin < 0 THEN <<>>
             ELSE << [mode |-> "combo",
                      durationMin |-> Round(DateParse(arrive) - DateParse(depart)),
                      depart |-> depart,
                      arrive |-> arrive,
                      minTransferMin |-> Some(m2),
                      legs |-> optA.legs \o optB.legs] >>

\* optionSignature(o): the template string, as the tuple of its parts
optionSignature(o) ==
  << o.depart, o.arrive, o.durationMin,
     [i \in 1..Len(o.legs) |->
        << o.legs[i].originName, o.legs[i].destName, o.legs[i].dep, o.legs[i].arr >>] >>

\* scoreOption(o)
scoreOption(o) ==
  LET minT == IF o.minTransferMin = Null THEN 999 ELSE o.minTransferMin[1]
      penalty == IF minT > 10 THEN (minT - 10) * 2 ELSE 0
  IN o.durationMin + penalty

\* list.sort((a, b) => scoreOption(a) - scoreOption(b))
SortByScore(s) == StableSort(s, [i \in 1..Len(s) |-> scoreOption(s[i])])
\* list.sort((x, y) => x.durationMin - y.durationMin)
SortByDuration(s) == StableSort(s, [i \in 1..Len(s) |-> s[i].durationMin])

\* the entries of s at the indices in keep, in order
RECURSIVE PickFrom(_, _, _)
PickFrom(s, i, keep) ==
  IF i > Len(s) THEN <<>>
  ELSE (IF i \in keep THEN <<s[i]>> ELSE <<>>) \o PickFrom(s, i + 1, keep)

\* the indices of the first occurrence of every key of keys
FirstOccurrences(keys) ==
  {i \in 1..Len(keys) : \A j \in 1..(i - 1) : keys[j] # keys[i]}

\* the seen-set loop of the merge step: keep the first option of every
\* optionSignature
Dedupe(all) ==
  PickFrom(all, 1, FirstOccurrences([i \in 1..Len(all) |-> optionSignature(all[i])]))

\* pushBest(o) on the buffer best
pushBest(best, o) ==
  LET b == Append(best, o)
  IN IF Len(b) > BEST_CAP THEN Take(SortByScore(b), BEST_KEEP) ELSE b

\* the transfer-gap test without its upper bound
TransferRejected_NoUpper(transferMin) == transferMin < 0
\* the transfer-gap test of the A x B loop: TRUE when the pair is skipped
TransferRejected(transferMin) == transferMin < 0 \/ transferMin > MAX_TRANSFER

\* the loop over bOpts for one optA, from index i on
RECURSIVE CombineLoop(_, _, _, _)
CombineLoop(best, optA, bOpts, i) ==
  IF i > Len(bOpts) THEN best
  ELSE LET optB == bOpts[i]
       IN IF ~ParseFinite(optB.depart) \/ ~ParseFinite(optA.arrive)
          THEN CombineLoop(best, optA, bOpts, i + 1)
          ELSE LET transferMin == Round(DateParse(optB.depart) - DateParse(optA.arrive))
                   combo == combineOptions(optA, optB)
               IN IF TransferRejected(transferMin) \/ combo = <<>>
                  THEN CombineLoop(best, optA, bOpts, i + 1)
                  ELSE CombineLoop(pushBest(best, combo[1]), optA, bOpts, i + 1)

\* the <<optA, optB>> pairs of one B answer that the loop combines and pushes
JoinedPairs(optA, bOpts) ==
  {<<optA, bOpts[i]>> : i \in {j \in 1..Len(bOpts) :
      /\ ParseFinite(bOpts[j].depart) /\ ParseFinite(optA.arrive)
      /\ ~TransferRejected(Round(DateParse(bOpts[j].depart) - DateParse(optA.arrive)))
      /\ combineOptions(optA, bOpts[j]) # <<>>}}

\* the names collected in viaCount, in insertion order with repetitions:
\* the destination name of every leg but the last, of every base trip
InterNamesOf(trip) ==
  PickFrom([i \in 1..Len(trip) |-> trip[i].destName], 1,
           {i \in 1..(Len(trip) - 1) : trip[i].destName # ""})
InterNames(baseTrips) ==
  Flatten([t \in 1..Len(baseTrips) |-> InterNamesOf(baseTrips[t])])

\* viaNames: the keys of viaCount sorted by descending count (stable on the
\* insertion order), the first MAX_VIA of them
ViaNames(baseTrips) ==
  LET all == InterNames(baseTrips)
      keys == PickFrom(all, 1, FirstOccurrences(all))
      count(nm) == Cardinality({i \in 1..Len(all) : all[i] = nm})
  IN Take(StableSort(keys, [i \in 1..Len(keys) |-> 0 - count(keys[i])]), MAX_VIA)

\* the base path without its sort
BaseAnswer_NoSort(options) == Take(options, TARGET)
\* the base path: enough base options, sorted by score and cut to TARGET
BaseAnswer(options) == Take(SortByScore(options), TARGET)
\* the early return when the budget is spent right after the base query
BudgetAnswer(options) == Take(options, TARGET)
\* the merge step: base options then combinations, deduplicated, sorted, cut
MergeAnswer(options, best) == Take(SortByScore(Dedupe(options \o best)), TARGET)

(***************************************************************************)
(* The upstream's possible answers (inputs of the model)                   *)
(***************************************************************************)
S(t) == Stamp(t, "Z")

\* Raw trips the rail API may return for the base query F -> T
bDirect   == << Leg("F", "T", S(0), S(40)) >>
bViaV     == << Leg("F", "V", S(0), S(16)), Leg("V", "T", S(20), S(48)) >>
bViaWNeg  == << Leg("F", "W", S(0), S(20)), Leg("W", "T", S(17), S(44)) >>
bBackward == << Leg("F", "T", S(20), S(10)) >>
bUnparsed == << Leg("F", "T", BadStamp, S(40)) >>
bNoLegs   == << >>
\* malformed records: a null first leg, a null leg between two legs, a
\* null trip
bNullFirst == << NullLeg, Leg("F", "T", S(0), S(40)) >>
bNullLeg   == << Leg("F", "V", S(0), S(16)), NullLeg, Leg("V", "T", S(20), S(48)) >>
bNullTrip  == NullTrip

\* Raw trips for an A leg F -> via
aOne == << Leg("F", "V", S(0), S(16)) >>
aTwo == << Leg("F", "X", S(2), S(8)), Leg("X", "V", S(10), S(15)) >>

\* Raw trips for a B leg via -> T; their departures lie before, at, within
\* and beyond the transfer window of the A arrivals (ticks 15 and 16)
bEarly  == << Leg("V", "T", S(10), S(30)) >>
bHalf   == << Leg("V", "T", S(15), S(40)) >>
bJoin   == << Leg("V", "T", S(20), S(48)) >>
bEdge   == << Leg("V", "T", S(56), S(70)) >>

\* the n entries of the cyclic list cyc from position k on
Window(cyc, k, n) == [i \in 1..n |-> cyc[((k + i - 2) % Len(cyc)) + 1]]
\* every window of cyc of length 0..maxLen
Windows(cyc, maxLen) == {Window(cyc, k, n) : k \in 1..Len(cyc), n \in 0..maxLen}

BaseCycle == << bViaV, bViaWNeg, bDirect, bBackward, bUnparsed, bNoLegs,
                bNullFirst, bNullLeg, bNullTrip >>
\* long base answers, of TARGET and more normalizable trips
LongCycle == << bViaV, bDirect, bViaWNeg >>
ACycle == << aOne, aTwo, bNullLeg >>
BCycle == << bEarly, bHalf, bJoin, bEdge, bNullTrip >>

BaseResponses ==
  Windows(BaseCycle, MaxBaseLen)
    \cup {Window(LongCycle, k, n) : k \in 1..Len(LongCycle),
                                    n \in TARGET..(TARGET + LongExtra)}
AResponses == Windows(ACycle, MaxALen)
BResponses == Windows(BCycle, MaxBLen)

\* Station records { code, namen: { lang } } and the payloads of a lookup
Station(code, lang) == [code |-> code, lang |-> lang]
\* String.prototype.toLowerCase on the names that occur
Lower(s) ==
  CASE s = "V" -> "v" [] s = "W" -> "w" [] s = "Vx" -> "vx" [] OTHER -> s
\* what the station API may answer for the via name nm: a list holding the
\* station itself (spelled in lower case), or only a longer-named one
StationPayloads(nm) ==
  { << Station("xc", "Vx"), Station(Lower(nm), Lower(nm)) >>,
    << Station("xc", "Vx") >> }

\* payload.find(s => lang.toLowerCase() === nm.toLowerCase())?.code || null,
\* with "" for null
FindCode(payload, nm) ==
  LET hits == {i \in 1..Len(payload) : Lower(payload[i].lang) = Lower(nm)}
  IN IF hits = {} THEN ""
     ELSE payload[CHOOSE i \in hits : \A j \in hits : i <= j].code

\* what an upstream call settles with: a parsed JSON body, or a failure
\* (HTTP error, timeout abort, non-JSON body: fetchJsonStrict throws)
Ok(body) == [ok |-> TRUE, body |-> body]
Failed == [ok |-> FALSE, body |-> <<>>]
Answers(bodies) == {Ok(b) : b \in bodies} \cup {Failed}

(***************************************************************************)
(* State of Spec                                                           *)
(***************************************************************************)
VARIABLES
  now,        \* Date.now() in ms
  tripCache,  \* cacheKey -> <<>> or <<[t, payload]>>
  pc,         \* where the one request in progress stands
  key,        \* its cacheKey
  t0,         \* its start time
  options,    \* its normalized base options
  viaNames,   \* the via names derived from the base trips
  viaCodes,   \* the codes resolved so far
  ri,         \* index of the via name being resolved
  vi,         \* index of the via code being explored
  aOpts,      \* the retained A options of the via being explored
  ai,         \* index of the A option being combined
  best,       \* the best-results buffer
  resp,       \* the response sent: <<>> or <<[status, options, src, late, failed]>>
  tripCalls,  \* upstream trip calls issued for this request
  stationLookups, \* fetchStationsCached calls made for this request
  joined,     \* history: cacheKey -> the <<optA, optB>> pairs combined for it
  stationCache,     \* the Map stationCache: entries [key, t, payload] in insertion order
  stationInFlight,  \* the Map stationInFlight: key -> <<>> or <<promise id>>
  promises,         \* the resolutions started: id -> [key, phase, outcome]
  nextP,            \* number of resolutions started
  callers,          \* caller -> [pc, p, result, pending]
  poolActive,       \* limitStations: activeCount
  poolQueue,        \* limitStations: queued resolutions
  delCount,         \* history: promise id -> times its in-flight entry was removed
  tripActive,       \* limitTrips: activeCount
  tripQueue,        \* limitTrips: queued tasks [owner, kind]
  reisHttp,         \* trip HTTP calls of /reis requests in flight
  ext,              \* /reis-extreme-b request -> where it stands
  stActive,         \* limitStations: activeCount
  stQueue,          \* limitStations: queued tasks ("wrap", "http", "httpW")
  stRun,            \* limitStations: running tasks, by kind
  debugHttp,        \* station HTTP calls of /debug/ns-stations in flight
  apiKey,           \* Boolean(API_KEY)
  freq,             \* search request -> [pc, ep, q, resp, baseOk, calls, cacheOps, explored]
  ovCache,          \* the Map ovCache: key -> <<>> or <<[t, payload]>>
  ovCodeCache,      \* the Map ovCodeCache: key -> <<>> or <<[t, payload, ok]>>
  lastRead,         \* history: the last cache read [cache, hit, age, ok, gone]
  cacheWrites,      \* history: cache writes made
  fcalls,           \* upstream call -> [phase, start, ms, timer, ok]
  ovPanel,          \* the departure panel: [phase, arr, deps, view]
  page,             \* the search page: [started, inFlightSearch, aborted,
                    \*   phase, resultaat, humanError, busy]
  fan,              \* one search's loops: [pc, vias, vi, aOpts, ai, calls]
  buf,              \* one search's buffer: [pc, options, vias, next, upto, best,
                    \*   found, resp]
  bsel,             \* one B query: [pc, bTrips, bOpts]
  opt,              \* the normalizer at work: [pc, out]
  route,            \* GET /stations request -> [key, via, bg, caught]
  ovl,              \* overlapping searches: [started, reqs: request -> [pc, no]]
  ovf,              \* stop code -> [pc, attempt, seen, result] of fetchOvTpcSafe
  auto              \* autocomplete of one field: [issued, last, list, cache, ctrl, flights]

\* the state of the /reis-extreme-b handler of Spec
handlerVars == << tripCache, pc, key, t0, options, viaNames, viaCodes, ri, vi,
                  aOpts, ai, best, resp, tripCalls, stationLookups, joined >>
\* the state of the station resolver of SpecStations
resolverVars == << stationCache, stationInFlight, promises, nextP, callers,
                   poolActive, poolQueue, delCount >>
\* the state of SpecTripPool and SpecStationPool
poolVars == << tripActive, tripQueue, reisHttp, ext, stActive, stQueue, stRun,
               debugHttp >>
\* the state of the other specifications
frontVars == << apiKey, freq >>
\* the state of SpecCaches besides tripCache and stationCache
cacheVars == << ovCache, ovCodeCache, lastRead, cacheWrites >>
\* the state of SpecFetch
fetchVars == << fcalls >>
\* the state of the page (SpecOv)
clientVars == << ovPanel, page >>
\* the state of SpecOptions, SpecRoute, SpecOverlap, SpecOvFetch, SpecAuto
moreVars == << opt, route, ovl, ovf, auto >>
extVars == << poolVars, frontVars, cacheVars, fetchVars, clientVars, fan, buf, bsel, moreVars >>
\* the handler's and the resolver's state besides the two caches
handlerRest == << pc, key, t0, options, viaNames, viaCodes, ri, vi, aOpts, ai,
                 best, resp, tripCalls, stationLookups, joined >>
resolverRest == << stationInFlight, promises, nextP, callers, poolActive,
                   poolQueue, delCount >>
\* what the station resolver's actions leave alone, and what the handler's do
\* what the actions of the pools and of the front leave alone
poolOutside == << now, handlerVars, resolverVars, frontVars, cacheVars, fetchVars, clientVars, fan, buf, bsel, moreVars >>
frontOutside == << resolverVars, poolVars, cacheVars, fetchVars, clientVars, fan, buf, bsel, moreVars >>
cacheOutside == << handlerRest, resolverRest, poolVars, frontVars, fetchVars, clientVars, fan, buf, bsel, moreVars >>
fetchOutside == << handlerVars, resolverVars, poolVars, frontVars, cacheVars, clientVars, fan, buf, bsel, moreVars >>
\* the state of SpecFanOut, SpecBuffer and SpecBOptions
engineVars == << fan, buf, bsel >>
serverVars == << now, handlerVars, resolverVars, poolVars, frontVars, cacheVars, fetchVars,
                 engineVars >>
fanOutside == << now, handlerVars, resolverVars, poolVars, frontVars, cacheVars, fetchVars,
                 clientVars, buf, bsel, moreVars >>
bufOutside == << now, handlerVars, resolverVars, poolVars, frontVars, cacheVars, fetchVars,
                 clientVars, fan, bsel, moreVars >>
bselOutside == << now, handlerVars, resolverVars, poolVars, frontVars, cacheVars, fetchVars,
                 clientVars, fan, buf, moreVars >>
ovOutside == << serverVars, page, moreVars >>
pageOutside == << serverVars, ovPanel, moreVars >>
\* every variable but those of the specifications below
baseVars == << serverVars, clientVars >>
optOutside == << baseVars, route, ovl, ovf, auto >>
searchVars == << handlerVars, extVars >>
stVars == << resolverVars, extVars >>
vars == << now, searchVars, stVars >>

\* Strings that are put together are sequences of their pieces; ":" is
\* the separator of the cache key templates.
\* `${prefix}:${van}:${naar}:${datetime}:${String(searchForArrival ?? "")}`
\* with prefix "reis" or "reisx"; an absent searchForArrival is <<>>
CacheKey(prefix, van, naar, datetime, sfa) ==
  prefix \o <<":">> \o van \o <<":">> \o naar \o <<":">> \o datetime \o <<":">> \o sfa

\* a query tuple of a search request; a missing parameter is <<>>
Query(van, naar, datetime, sfa) ==
  [van |-> van, naar |-> naar, datetime |-> datetime, sfa |-> sfa]
\* the query tuples requests come with
FrontQueries ==
  { Query(<<"F">>, <<"T", ":", "X">>, <<"D">>, <<>>),
    Query(<<"F", ":", "T">>, <<"X">>, <<"D">>, <<>>),
    Query(<<"F">>, <<"T", ":", "X">>, <<"D">>, <<"true">>),
    Query(<<>>, <<"X">>, <<"D">>, <<>>),
    Query(<<"F">>, <<>>, <<"D">>, <<>>),
    Query(<<"F">>, <<"X">>, <<>>, <<"true">>) }
Endpoints == { <<"reis">>, <<"reisx">> }
KeyOf(ep, q) == CacheKey(ep, q.van, q.naar, q.datetime, q.sfa)

\* the cache key of the /reis-extreme-b request of Spec
Keys == {CacheKey(<<"reisx">>, <<"F">>, <<"T">>, <<"D">>, <<>>)}
\* the keys the Map tripCache is looked up with
AllKeys == Keys \cup {KeyOf(ep, q) : ep \in Endpoints, q \in FrontQueries}

\* outOfTime()
outOfTime == (now - t0) > BUDGET_MS

\* tripCacheGet that never looks at the entry's age
TripCacheFresh_NoTtl(k) == tripCache[k] # <<>>
\* tripCacheGet(k): <<>> for null, else <<payload>>
TripCacheFresh(k) == tripCache[k] # <<>> /\ ~(now - tripCache[k][1].t > TRIP_TTL_MS)
\* tripCacheSet(k, payload)
TripCacheSet(k, payload) == [tripCache EXCEPT ![k] = << [t |-> now, payload |-> payload] >>]

\* combo (<<>> or <<option>>) is an option of the payload cached under k
InPayload(k, combo) ==
  /\ combo # <<>>
  /\ tripCache[k] # <<>>
  /\ \E i \in 1..Len(tripCache[k][1].payload) : tripCache[k][1].payload[i] = combo[1]

(***************************************************************************)
(* Station resolver: stationCache, stationInFlight, fetchStationsCached,   *)
(* fetchStationsFromNS under the limitStations pool                        *)
(***************************************************************************)
Callers == 1..NCallers
PromiseIds == 1..MaxPromises

\* the query strings callers pass
Queries == {"Rot", " rot ", "U", " "}
\* (q || "").trim().toLowerCase() on those strings
StationKey(q) ==
  CASE q = "Rot" -> "rot" [] q = " rot " -> "rot" [] q = "U" -> "u" [] OTHER -> ""
StKeys == {StationKey(q) : q \in Queries} \ {""}
\* the keys of stationCache that are looked up, and key.slice(0, i) for
\* i = key.length - 1 down to 2
PrefixKeys == {"ro", "rot", "rott"}
Prefixes(k) ==
  CASE k = "rott" -> << "rot", "ro" >> [] k = "rot" -> << "ro" >> [] OTHER -> << >>

\* what the station API may answer: data.payload || []
StationBodies == { <<>>, << Station("rtd", "Rotterdam Centraal") >> }

\* index of key in the Map stationCache, 0 when absent
CacheIndex(cache, k) ==
  IF \E i \in 1..Len(cache) : cache[i].key = k
  THEN CHOOSE i \in 1..Len(cache) : cache[i].key = k
  ELSE 0
\* Map.delete(k)
CacheDelete(cache, k) == SelectSeq(cache, LAMBDA e : e.key # k)

\* stationCacheGet(k): TRUE when it returns the payload (a fresh entry)
StationCacheHit(k) ==
  /\ CacheIndex(stationCache, k) # 0
  /\ ~(now - stationCache[CacheIndex(stationCache, k)].t > STATION_TTL_MS)
\* the Map after stationCacheGet(k): an expired entry is deleted
StationCacheAfterGet(k) ==
  IF CacheIndex(stationCache, k) # 0 /\ ~StationCacheHit(k)
  THEN CacheDelete(stationCache, k)
  ELSE stationCache

\* stationCacheSet with the comparator reversed (b[1].t - a[1].t)
stationCacheSet_NewestFirst(cache, k, payload) ==
  LET e == [key |-> k, t |-> now, payload |-> payload]
      put == IF CacheIndex(cache, k) # 0
             THEN [cache EXCEPT ![CacheIndex(cache, k)] = e]
             ELSE Append(cache, e)
      byAge == StableSort(put, [i \in 1..Len(put) |-> 0 - put[i].t])
      gone == {byAge[i].key : i \in 1..(Len(put) - STATION_MAX_KEYS)}
  IN IF Len(put) > STATION_MAX_KEYS
     THEN SelectSeq(put, LAMBDA x : x.key \notin gone)
     ELSE put
\* stationCacheSet(k, payload) on the Map cache: Map.set keeps the position
\* of an existing key; over STATION_MAX_KEYS the oldest entries go
stationCacheSet(cache, k, payload) ==
  LET e == [key |-> k, t |-> now, payload |-> payload]
      put == IF CacheIndex(cache, k) # 0
             THEN [cache EXCEPT ![CacheIndex(cache, k)] = e]
             ELSE Append(cache, e)
      byAge == StableSort(put, [i \in 1..Len(put) |-> put[i].t])
      gone == {byAge[i].key : i \in 1..(Len(put) - STATION_MAX_KEYS)}
  IN IF Len(put) > STATION_MAX_KEYS
     THEN SelectSeq(put, LAMBDA x : x.key \notin gone)
     ELSE put

\* the in-flight lookup that never finds an entry
InFlightGet_Never(k) == <<>>
\* stationInFlight.has(k) / get(k): <<>> or <<promise id>>
InFlightGet(k) == stationInFlight[k]

\* the removal that only a successful resolution performs
InFlightAfterSettle_OnSuccessOnly(k, ok) ==
  IF ok THEN [stationInFlight EXCEPT ![k] = <<>>] ELSE stationInFlight
\* finally { stationInFlight.delete(k) }: the Map after a resolution of k
\* settled (ok: with a payload)
InFlightAfterSettle(k, ok) == [stationInFlight EXCEPT ![k] = <<>>]

Pending(p) == promises[p].phase \in {"queued", "running", "arrived"}
Settled(p) == promises[p].phase \in {"fulfilled", "rejected"}
\* a settled promise that no caller holds any more
Collected(p) == promises[p].phase = "collected"

InitStations ==
  /\ stationCache = <<>>
  /\ stationInFlight = [k \in StKeys \cup PrefixKeys |-> <<>>]
  /\ promises = [p \in PromiseIds |-> [key |-> "", phase |-> "unused", outcome |-> Failed]]
  /\ nextP = 0
  /\ callers = [c \in Callers |-> [pc |-> "idle", p |-> 0, result |-> Failed,
                                   pending |-> TRUE]]
  /\ poolActive = 0
  /\ poolQueue = <<>>
  /\ delCount = [p \in PromiseIds |-> 0]

\* Date.now() advances by a station-cache-scale step
StationTick ==
  /\ now < MaxStTicks * StTickMs
  /\ now' = now + StTickMs
  /\ UNCHANGED << searchVars, stVars >>

\* caller c calls fetchStationsCached(q): runs to its return statement
\* (the async IIFE runs synchronously up to its first await, which queues
\* the upstream call on limitStations)
CallStations(c, q) ==
  LET k == StationKey(q)
  IN /\ callers[c].pc = "idle"
     /\ IF k = ""
        THEN /\ callers' = [callers EXCEPT ![c] =
                  [pc |-> "done", p |-> 0, result |-> Ok(<<>>), pending |-> TRUE]]
             /\ UNCHANGED << stationCache, stationInFlight, promises, nextP, poolQueue >>
        ELSE IF StationCacheHit(k)
        THEN /\ callers' = [callers EXCEPT ![c] =
                  [pc |-> "done", p |-> 0,
                   result |-> Ok(stationCache[CacheIndex(stationCache, k)].payload),
                   pending |-> TRUE]]
             /\ UNCHANGED << stationCache, stationInFlight, promises, nextP, poolQueue >>
        ELSE IF InFlightGet(k) # <<>>
        THEN /\ callers' = [callers EXCEPT ![c] =
                  [pc |-> "waiting", p |-> InFlightGet(k)[1], result |-> Failed,
                   pending |-> Pending(InFlightGet(k)[1])]]
             /\ stationCache' = StationCacheAfterGet(k)
             /\ UNCHANGED << stationInFlight, promises, nextP, poolQueue >>
        ELSE /\ nextP < MaxPromises
             /\ nextP' = nextP + 1
             /\ promises' = [promises EXCEPT ![nextP + 1] =
                  [key |-> k, phase |-> "queued", outcome |-> Failed]]
             /\ poolQueue' = Append(poolQueue, nextP + 1)
             /\ stationInFlight' = [stationInFlight EXCEPT ![k] = << nextP + 1 >>]
             /\ stationCache' = StationCacheAfterGet(k)
             /\ callers' = [callers EXCEPT ![c] =
                  [pc |-> "waiting", p |-> nextP + 1, result |-> Failed,
                   pending |-> TRUE]]
     /\ UNCHANGED << now, searchVars, poolActive, delCount >>

\* limitStations starts its next queued task: the HTTP call goes out
PoolStart ==
  /\ poolQueue # <<>>
  /\ poolActive < STATIONS_CONCURRENCY
  /\ poolActive' = poolActive + 1
  /\ poolQueue' = Tail(poolQueue)
  /\ promises' = [promises EXCEPT ![Head(poolQueue)].phase = "running"]
  /\ UNCHANGED << now, searchVars, stationCache, stationInFlight, nextP, callers, delCount >>

\* the HTTP call of resolution p settles with the answer r; its pool slot
\* is released
HttpSettle(p, r) ==
  /\ promises[p].phase = "running"
  /\ promises' = [promises EXCEPT ![p].phase = "arrived", ![p].outcome = r]
  /\ poolActive' = poolActive - 1
  /\ UNCHANGED << now, searchVars, stationCache, stationInFlight, nextP, callers,
                  poolQueue, delCount >>

\* the async IIFE of resolution p continues after its await: on success the
\* payload is cached; in every case the in-flight entry is removed
\* (finally) and the promise settles
Continue(p) ==
  LET k == promises[p].key
      r == promises[p].outcome
  IN /\ promises[p].phase = "arrived"
     /\ stationCache' = IF r.ok THEN stationCacheSet(stationCache, k, r.body)
                        ELSE stationCache
     /\ stationInFlight' = InFlightAfterSettle(k, r.ok)
     /\ delCount' = [delCount EXCEPT ![p] =
          @ + (IF stationInFlight[k] = <<p>> /\ stationInFlight'[k] = <<>> THEN 1 ELSE 0)]
     /\ promises' = [promises EXCEPT ![p].phase = IF r.ok THEN "fulfilled" ELSE "rejected"]
     /\ UNCHANGED << now, searchVars, nextP, callers, poolActive, poolQueue >>

\* caller c, awaiting a settled promise, receives its outcome
Receive(c) ==
  /\ callers[c].pc = "waiting"
  /\ Settled(callers[c].p)
  /\ callers' = [callers EXCEPT ![c].pc = "done",
                                ![c].result = promises[callers[c].p].outcome]
  /\ UNCHANGED << now, searchVars, stationCache, stationInFlight, promises, nextP,
                  poolActive, poolQueue, delCount >>

\* caller c is done with its result and may call again; a settled promise
\* that no caller holds any more is garbage
Return(c) ==
  /\ callers[c].pc = "done"
  /\ callers' = [callers EXCEPT ![c] =
       [pc |-> "idle", p |-> 0, result |-> Failed, pending |-> TRUE]]
  /\ promises' =
       IF callers[c].p # 0 /\ \A d \in Callers \ {c} : callers[d].p # callers[c].p
       THEN [promises EXCEPT ![callers[c].p] =
               [key |-> "", phase |-> "collected", outcome |-> Failed]]
       ELSE promises
  /\ UNCHANGED << now, searchVars, stationCache, stationInFlight, nextP,
                  poolActive, poolQueue, delCount >>

NextStations ==
  \/ StationTick
  \/ \E c \in Callers, q \in Queries : CallStations(c, q)
  \/ PoolStart
  \/ \E p \in PromiseIds, r \in Answers(StationBodies) : HttpSettle(p, r)
  \/ \E p \in PromiseIds : Continue(p)
  \/ \E c \in Callers : Receive(c)
  \/ \E c \in Callers : Return(c)

(***************************************************************************)
(* The two p-limit pools: limitTrips = pLimit(6), limitStations =          *)
(* pLimit(4).  limit(fn) queues fn; a queued task starts when fewer than   *)
(* the cap are running, and its slot is free again when fn's promise       *)
(* settles.  /reis requests and station lookups are counted, not named;    *)
(* budget checks and cache hits are choices.                               *)
(***************************************************************************)
ExtIds == 1..NExt
\* the /reis-extreme-b requests of SpecViaPool
ViaIds == 1..NVia

\* the pool that starts every queued task at once
TripPoolFree_NoCap == TRUE
\* limitTrips: a queued task may start
TripPoolFree == tripActive < TRIPS_CONCURRENCY
\* limitStations: a queued task may start
StPoolFree == stActive < STATIONS_CONCURRENCY

\* a task of request e (0: some /reis request) for limitTrips
TripTask(e, kind) == [owner |-> e, kind |-> kind]
\* /reis requests whose fetchTrips call is queued
ReisQueued == Cardinality({i \in 1..Len(tripQueue) : tripQueue[i].owner = 0})
\* where a /reis-extreme-b request goes when its queued task starts
ExtStarted(p) ==
  CASE p = "baseQ" -> "baseRun" [] p = "viaQ" -> "via" [] p = "aQ" -> "aRun"
    [] p = "abQ" -> "ab" [] p = "bQ" -> "bRun" [] OTHER -> p
\* upstream trip HTTP calls in flight
TripHttpInFlight ==
  reisHttp + Cardinality({e \in DOMAIN ext : ext[e] \in {"baseRun", "aRun", "bRun"}})
\* station lookups queued or running in limitStations
StTasks == Len(stQueue) + stRun.wrap + stRun.hit + stRun.http + stRun.httpW
\* upstream station HTTP calls in flight
StationHttpInFlight == stRun.http + stRun.httpW + debugHttp

InitPools ==
  /\ tripActive = 0
  /\ tripQueue = <<>>
  /\ reisHttp = 0
  /\ ext = [e \in ExtIds \cup ViaIds |-> "idle"]
  /\ stActive = 0
  /\ stQueue = <<>>
  /\ stRun = [wrap |-> 0, hit |-> 0, http |-> 0, httpW |-> 0]
  /\ debugHttp = 0

\* a /reis request (cache miss) calls fetchTrips
ReisCall ==
  /\ ReisQueued + reisHttp < MaxReis
  /\ tripQueue' = Append(tripQueue, TripTask(0, "http"))
  /\ UNCHANGED << poolOutside, tripActive, reisHttp, ext,
                  stActive, stQueue, stRun, debugHttp >>

\* limitTrips starts its next queued task
TripPoolStart ==
  /\ tripQueue # <<>>
  /\ TripPoolFree
  /\ tripActive' = tripActive + 1
  /\ tripQueue' = Tail(tripQueue)
  /\ IF Head(tripQueue).owner = 0
     THEN reisHttp' = reisHttp + 1 /\ UNCHANGED ext
     ELSE /\ ext' = [ext EXCEPT ![Head(tripQueue).owner] = ExtStarted(@)]
          /\ UNCHANGED reisHttp
  /\ UNCHANGED << poolOutside, stActive, stQueue, stRun, debugHttp >>

\* the trip call of a /reis request settles (answer, HTTP error or timeout)
ReisHttpSettle ==
  /\ reisHttp > 0
  /\ reisHttp' = reisHttp - 1
  /\ tripActive' = tripActive - 1
  /\ UNCHANGED << poolOutside, tripQueue, ext,
                  stActive, stQueue, stRun, debugHttp >>

\* request e moves from pc p to q, queueing the tasks in enq and giving
\* back freed slots of limitTrips
ExtStep(e, p, q, enq, freed) ==
  /\ ext[e] = p
  /\ ext' = [ext EXCEPT ![e] = q]
  /\ tripQueue' = tripQueue \o enq
  /\ tripActive' = tripActive - freed
  /\ UNCHANGED << poolOutside, reisHttp,
                  stActive, stQueue, stRun, debugHttp >>

\* /reis-extreme-b (cache miss): the base query
ExtCall(e) == ExtStep(e, "idle", "baseQ", << TripTask(e, "http") >>, 0)
\* the base query settles: failure or enough options (response), or on to
\* the via loop
ExtBaseSettle(e, explore) ==
  ExtStep(e, "baseRun", IF explore THEN "loop" ELSE "idle", <<>>, 1)
\* head of the via loop: next via task, or merge and respond
ExtLoop(e, more) ==
  IF more THEN ExtStep(e, "loop", "viaQ", << TripTask(e, "via") >>, 0)
  ELSE ExtStep(e, "loop", "idle", <<>>, 0)
\* the via task runs: out of time (task ends), or the A query
ExtVia(e, late) ==
  IF late THEN ExtStep(e, "via", "loop", <<>>, 1)
  ELSE ExtStep(e, "via", "aQ", << TripTask(e, "http") >>, 0)
\* the A query settles: on failure the via task rejects with it
ExtASettle(e, ok) ==
  IF ok THEN ExtStep(e, "aRun", "optLoop", <<>>, 1)
  ELSE ExtStep(e, "aRun", "idle", <<>>, 2)
\* head of the loop over aOpts: next A->B task, or the via task ends
ExtOptLoop(e, more) ==
  IF more THEN ExtStep(e, "optLoop", "abQ", << TripTask(e, "ab") >>, 0)
  ELSE ExtStep(e, "optLoop", "loop", <<>>, 1)
\* the A->B task runs: out of time (task ends), or the B query
ExtAb(e, late) ==
  IF late THEN ExtStep(e, "ab", "optLoop", <<>>, 1)
  ELSE ExtStep(e, "ab", "bQ", << TripTask(e, "http") >>, 0)
\* the B query settles and the A->B task ends; on failure the via task
\* rejects too
ExtBSettle(e, ok) ==
  IF ok THEN ExtStep(e, "bRun", "optLoop", <<>>, 2)
  ELSE ExtStep(e, "bRun", "idle", <<>>, 3)

\* a station lookup reaches the pool: fetchStationsFromNS queues its HTTP
\* call ("http"), or the via resolution queues its wrapper ("wrap")
StationsCall(kind) ==
  /\ StTasks < MaxStTasks
  /\ stQueue' = Append(stQueue, kind)
  /\ UNCHANGED << poolOutside, tripActive, tripQueue, reisHttp,
                  ext, stActive, stRun, debugHttp >>

\* limitStations starts its next queued task; a wrapper runs up to its
\* await of fetchStationsCached, which answers from the cache or an
\* in-flight resolution (hit) or queues its own HTTP call
StPoolStart(hit) ==
  /\ stQueue # <<>>
  /\ StPoolFree
  /\ stActive' = stActive + 1
  /\ IF Head(stQueue) = "wrap"
     THEN IF hit
          THEN /\ stRun' = [stRun EXCEPT !.hit = @ + 1]
               /\ stQueue' = Tail(stQueue)
          ELSE /\ stRun' = [stRun EXCEPT !.wrap = @ + 1]
               /\ stQueue' = Append(Tail(stQueue), "httpW")
     ELSE /\ stRun' = [stRun EXCEPT ![Head(stQueue)] = @ + 1]
          /\ stQueue' = Tail(stQueue)
  /\ UNCHANGED << poolOutside, tripActive, tripQueue, reisHttp,
                  ext, debugHttp >>

\* a wrapper whose lookup needed no HTTP call of its own ends
StWrapEnd ==
  /\ stRun.hit > 0
  /\ stRun' = [stRun EXCEPT !.hit = @ - 1]
  /\ stActive' = stActive - 1
  /\ UNCHANGED << poolOutside, tripActive, tripQueue, reisHttp,
                  ext, stQueue, debugHttp >>

\* a pooled station HTTP call settles; with it ends the wrapper that
\* awaited it
StHttpSettle(kind) ==
  /\ stRun[kind] > 0
  /\ IF kind = "httpW"
     THEN /\ stRun' = [stRun EXCEPT !.httpW = @ - 1, !.wrap = @ - 1]
          /\ stActive' = stActive - 2
     ELSE /\ stRun' = [stRun EXCEPT !.http = @ - 1]
          /\ stActive' = stActive - 1
  /\ UNCHANGED << poolOutside, tripActive, tripQueue, reisHttp,
                  ext, stQueue, debugHttp >>

\* GET /debug/ns-stations: fetchWithTimeout on the station API, directly
DebugCall ==
  /\ debugHttp < MaxDebug
  /\ debugHttp' = debugHttp + 1
  /\ UNCHANGED << poolOutside, tripActive, tripQueue, reisHttp,
                  ext, stActive, stQueue, stRun >>

\* the call of /debug/ns-stations settles
DebugSettle ==
  /\ debugHttp > 0
  /\ debugHttp' = debugHttp - 1
  /\ UNCHANGED << poolOutside, tripActive, tripQueue, reisHttp,
                  ext, stActive, stQueue, stRun >>

NextTripPool ==
  \/ ReisCall
  \/ TripPoolStart
  \/ ReisHttpSettle
  \/ \E e \in ExtIds : ExtCall(e)
  \/ \E e \in ExtIds, b \in BOOLEAN : ExtBaseSettle(e, b)
  \/ \E e \in ExtIds, b \in BOOLEAN : ExtLoop(e, b)
  \/ \E e \in ExtIds, b \in BOOLEAN : ExtVia(e, b)
  \/ \E e \in ExtIds, b \in BOOLEAN : ExtASettle(e, b)
  \/ \E e \in ExtIds, b \in BOOLEAN : ExtOptLoop(e, b)
  \/ \E e \in ExtIds, b \in BOOLEAN : ExtAb(e, b)
  \/ \E e \in ExtIds, b \in BOOLEAN : ExtBSettle(e, b)

NextViaPool ==
  \/ TripPoolStart
  \/ \E e \in ViaIds : ExtCall(e)
  \/ \E e \in ViaIds, b \in BOOLEAN : ExtBaseSettle(e, b)
  \/ \E e \in ViaIds, b \in BOOLEAN : ExtLoop(e, b)
  \/ \E e \in ViaIds, b \in BOOLEAN : ExtVia(e, b)
  \/ \E e \in ViaIds, b \in BOOLEAN : ExtASettle(e, b)
  \/ \E e \in ViaIds, b \in BOOLEAN : ExtOptLoop(e, b)
  \/ \E e \in ViaIds, b \in BOOLEAN : ExtAb(e, b)
  \/ \E e \in ViaIds, b \in BOOLEAN : ExtBSettle(e, b)

NextStationPool ==
  \/ \E k \in {"http", "wrap"} : StationsCall(k)
  \/ \E b \in BOOLEAN : StPoolStart(b)
  \/ StWrapEnd
  \/ \E k \in {"http", "httpW"} : StHttpSettle(k)
  \/ DebugCall
  \/ DebugSettle

(***************************************************************************)
(* The front of the two search handlers: requireApiKey, parameter check,   *)
(* cache key, tripCacheGet, base query, tripCacheSet, catch.  What a       *)
(* payload was computed for stands for its options.                        *)
(***************************************************************************)
ReqIds == 1..NReq

\* !van || !naar || !datetime
ParamsMissing_VanOnly(q) == q.van = <<>>
ParamsMissing(q) == q.van = <<>> \/ q.naar = <<>> \/ q.datetime = <<>>

\* the catch of the handlers takes every failure of the base query
BaseFailed_Never(ok) == FALSE
\* fetchTrips rejects (fetchJsonStrict throws)
BaseFailed(ok) == ~ok

NoResp == [status |-> 0, src |-> "none", error |-> FALSE, payload |-> <<>>]
IdleReq ==
  [pc |-> "idle", ep |-> <<>>, q |-> Query(<<>>, <<>>, <<>>, <<>>), resp |-> NoResp,
   baseOk |-> "none", calls |-> 0, cacheOps |-> 0, explored |-> FALSE]
\* the payload computed for (ep, q): { options } of the upstream's answer
PayloadFor(ep, q) == << [ep |-> ep, q |-> q] >>
\* res.status(..).json({ error })
ErrorResp(status, src) == [status |-> status, src |-> src, error |-> TRUE, payload |-> <<>>]
\* res.json(payload)
OkResp(src, payload) == [status |-> 200, src |-> src, error |-> FALSE, payload |-> payload]

InitFront ==
  /\ apiKey = TRUE
  /\ freq = [r \in ReqIds |-> IdleReq]

\* the server is (re)started with or without NS_API_KEY
FrontRestart(k) ==
  /\ \A r \in ReqIds : freq[r].pc = "idle"
  /\ apiKey' = k
  /\ tripCache' = [x \in AllKeys |-> <<>>]
  /\ UNCHANGED << now, pc, key, t0, options, viaNames, viaCodes, ri, vi, aOpts, ai,
                  best, resp, tripCalls, stationLookups, joined,
                  frontOutside, freq >>

\* GET /reis or /reis-extreme-b arrives: up to the base query's await
FrontArrive(r, ep, q) ==
  LET k == KeyOf(ep, q)
      me == [IdleReq EXCEPT !.ep = ep, !.q = q]
  IN /\ freq[r].pc = "idle"
     /\ IF ~apiKey
        THEN /\ freq' = [freq EXCEPT ![r] =
                  [me EXCEPT !.pc = "done", !.resp = ErrorResp(500, "nokey")]]
             /\ UNCHANGED tripCache
        ELSE IF ParamsMissing(q)
        THEN /\ freq' = [freq EXCEPT ![r] =
                  [me EXCEPT !.pc = "done", !.resp = ErrorResp(400, "params")]]
             /\ UNCHANGED tripCache
        ELSE IF TripCacheFresh(k)
        THEN /\ freq' = [freq EXCEPT ![r] =
                  [me EXCEPT !.pc = "done", !.cacheOps = 1,
                             !.resp = OkResp("cache", tripCache[k][1].payload)]]
             /\ UNCHANGED tripCache
        ELSE /\ freq' = [freq EXCEPT ![r] =
                  [me EXCEPT !.pc = "base", !.cacheOps = 1, !.calls = 1]]
             /\ tripCache' = [tripCache EXCEPT ![k] = <<>>]
     /\ UNCHANGED << now, pc, key, t0, options, viaNames, viaCodes, ri, vi, aOpts, ai,
                     best, resp, tripCalls, stationLookups, joined,
                     frontOutside, apiKey >>

\* the base query of request r settles (ok: with a JSON body); /reis
\* answers; /reis-extreme-b answers (enough options, or budget spent) or
\* starts its via exploration
FrontBaseSettle(r, ok, explore) ==
  LET me == freq[r]
      k == KeyOf(me.ep, me.q)
      payload == PayloadFor(me.ep, me.q)
  IN /\ me.pc = "base"
     /\ IF BaseFailed(ok)
        THEN /\ freq' = [freq EXCEPT ![r] =
                  [me EXCEPT !.pc = "done", !.baseOk = "failed",
                             !.resp = ErrorResp(500, "error")]]
             /\ UNCHANGED tripCache
        ELSE IF me.ep = <<"reisx">> /\ explore
        THEN /\ freq' = [freq EXCEPT ![r] =
                  [me EXCEPT !.pc = "explore", !.explored = TRUE, !.calls = @ + 1,
                             !.baseOk = IF ok THEN "ok" ELSE "failed"]]
             /\ UNCHANGED tripCache
        ELSE /\ freq' = [freq EXCEPT ![r] =
                  [me EXCEPT !.pc = "done", !.cacheOps = @ + 1,
                             !.baseOk = IF ok THEN "ok" ELSE "failed",
                             !.resp = OkResp("fresh", payload)]]
             /\ tripCache' = TripCacheSet(k, payload)
     /\ UNCHANGED << now, pc, key, t0, options, viaNames, viaCodes, ri, vi, aOpts, ai,
                     best, resp, tripCalls, stationLookups, joined,
                     frontOutside, apiKey >>

\* the via exploration of request r ends: merge and answer, or a thrown
\* failure caught
FrontExploreSettle(r, ok) ==
  LET me == freq[r]
      k == KeyOf(me.ep, me.q)
      payload == PayloadFor(me.ep, me.q)
  IN /\ me.pc = "explore"
     /\ IF ok
        THEN /\ freq' = [freq EXCEPT ![r] =
                  [me EXCEPT !.pc = "done", !.cacheOps = @ + 1,
                             !.resp = OkResp("fresh", payload)]]
             /\ tripCache' = TripCacheSet(k, payload)
        ELSE /\ freq' = [freq EXCEPT ![r] =
                  [me EXCEPT !.pc = "done", !.resp = ErrorResp(500, "error")]]
             /\ UNCHANGED tripCache
     /\ UNCHANGED << now, pc, key, t0, options, viaNames, viaCodes, ri, vi, aOpts, ai,
                     best, resp, tripCalls, stationLookups, joined,
                     frontOutside, apiKey >>

\* the response of request r has been sent
FrontFinish(r) ==
  /\ freq[r].pc = "done"
  /\ freq' = [freq EXCEPT ![r] = IdleReq]
  /\ UNCHANGED << now, handlerVars, frontOutside, apiKey >>

NextFront ==
  \/ \E k \in BOOLEAN : FrontRestart(k)
  \/ \E r \in ReqIds, ep \in Endpoints, q \in FrontQueries : FrontArrive(r, ep, q)
  \/ \E r \in ReqIds, ok \in BOOLEAN, explore \in BOOLEAN : FrontBaseSettle(r, ok, explore)
  \/ \E r \in ReqIds, ok \in BOOLEAN : FrontExploreSettle(r, ok)
  \/ \E r \in ReqIds : FrontFinish(r)

(***************************************************************************)
(* The TTL caches: tripCacheGet/Set, stationCacheGet/Set, bestPrefixCached *)
(* and the periodic sweep, ovCacheGet/Set, ovCodeCacheGet/Set              *)
(***************************************************************************)
OvKey == "ov:ddr:53600140"
OvCodeKey == "code:53600140"

\* bestPrefixCached scanning from short to long
bestPrefixCached_Shortest(k) ==
  LET hits == {i \in 1..Len(Prefixes(k)) : StationCacheHit(Prefixes(k)[i])}
  IN IF hits = {} THEN 0 ELSE CHOOSE i \in hits : \A j \in hits : i >= j
\* bestPrefixCached(key): index in Prefixes(key) of the prefix whose payload
\* is returned, 0 for null
bestPrefixCached(k) ==
  LET hits == {i \in 1..Len(Prefixes(k)) : StationCacheHit(Prefixes(k)[i])}
  IN IF hits = {} THEN 0 ELSE CHOOSE i \in hits : \A j \in hits : i <= j
\* the Map after bestPrefixCached(key): the expired entries it came across
\* are deleted
StationCacheAfterPrefix(k) ==
  LET n == IF bestPrefixCached(k) = 0 THEN Len(Prefixes(k)) ELSE bestPrefixCached(k)
      seen == {Prefixes(k)[i] : i \in 1..n}
  IN SelectSeq(stationCache, LAMBDA e : ~(e.key \in seen /\ now - e.t > STATION_TTL_MS))
\* the sweep of setInterval: every expired entry is deleted
StationCacheSwept ==
  SelectSeq(stationCache, LAMBDA e : ~(now - e.t > STATION_TTL_MS))

\* ovCacheGet(key): TRUE when it returns the payload
OvCacheFresh(k) == ovCache[k] # <<>> /\ ~(now - ovCache[k][1].t > OV_TTL_MS)
\* ovCodeCacheGet(key): TRUE when it returns the payload
OvCodeCacheFresh(k) ==
  /\ ovCodeCache[k] # <<>>
  /\ ~(now - ovCodeCache[k][1].t >
         (IF ovCodeCache[k][1].ok THEN OV_CODE_TTL_OK_MS ELSE OV_CODE_TTL_ERR_MS))

\* what a read is remembered by: the cache, whether a payload was returned,
\* the age of the entry found under the key (-1: none), its ok flag, and
\* whether the key has no entry after the read
Read(cache, hit, age, ok, gone) ==
  [cache |-> cache, hit |-> hit, age |-> age, ok |-> ok, gone |-> gone]
\* age of the entry of k in the Map stationCache, -1 when absent
StationAge(k) ==
  IF CacheIndex(stationCache, k) = 0 THEN 0 - 1
  ELSE now - stationCache[CacheIndex(stationCache, k)].t

InitCaches ==
  /\ ovCache = [k \in {OvKey} |-> <<>>]
  /\ ovCodeCache = [k \in {OvCodeKey} |-> <<>>]
  /\ lastRead = Read("none", FALSE, 0 - 1, TRUE, TRUE)
  /\ cacheWrites = 0

\* Date.now() advances
CacheTick ==
  /\ now % CacheLeapMs < MaxCacheTicks * CacheTickMs
  /\ now' = now + CacheTickMs
  /\ UNCHANGED << tripCache, stationCache, cacheVars, cacheOutside >>

\* Date.now() advances by about half an hour
CacheLeap ==
  /\ now < CacheLeapMs
  /\ now' = now + CacheLeapMs
  /\ UNCHANGED << tripCache, stationCache, cacheVars, cacheOutside >>

\* tripCacheSet(k, payload)
TripWrite(k) ==
  /\ cacheWrites < MaxCacheWrites
  /\ cacheWrites' = cacheWrites + 1
  /\ tripCache' = TripCacheSet(k, << >>)
  /\ UNCHANGED << now, stationCache, ovCache, ovCodeCache, lastRead, cacheOutside >>

\* tripCacheGet(k)
TripRead(k) ==
  /\ tripCache' = IF TripCacheFresh(k) THEN tripCache ELSE [tripCache EXCEPT ![k] = <<>>]
  /\ lastRead' = Read("trip", TripCacheFresh(k),
                      IF tripCache[k] = <<>> THEN 0 - 1 ELSE now - tripCache[k][1].t,
                      TRUE, tripCache'[k] = <<>>)
  /\ UNCHANGED << now, stationCache, ovCache, ovCodeCache, cacheWrites, cacheOutside >>

\* stationCacheSet(k, payload)
StationWrite(k) ==
  /\ cacheWrites < MaxCacheWrites
  /\ cacheWrites' = cacheWrites + 1
  /\ stationCache' = stationCacheSet(stationCache, k, << >>)
  /\ UNCHANGED << now, tripCache, ovCache, ovCodeCache, lastRead, cacheOutside >>

\* stationCacheGet(k)
StationRead(k) ==
  /\ stationCache' = StationCacheAfterGet(k)
  /\ lastRead' = Read("station", StationCacheHit(k), StationAge(k), TRUE,
                      CacheIndex(stationCache', k) = 0)
  /\ UNCHANGED << now, tripCache, ovCache, ovCodeCache, cacheWrites, cacheOutside >>

\* bestPrefixCached(k); the read remembered is that of the prefix returned,
\* or, with no prefix returned, of the oldest prefix found
StationPrefixRead(k) ==
  LET i == bestPrefixCached(k)
      found == {j \in 1..Len(Prefixes(k)) : CacheIndex(stationCache, Prefixes(k)[j]) # 0}
      old == CHOOSE j \in found :
               \A h \in found : StationAge(Prefixes(k)[h]) <= StationAge(Prefixes(k)[j])
  IN /\ Prefixes(k) # << >>
     /\ stationCache' = StationCacheAfterPrefix(k)
     /\ lastRead' =
          IF i # 0
          THEN Read("prefix", TRUE, StationAge(Prefixes(k)[i]), TRUE, FALSE)
          ELSE IF found = {} THEN Read("prefix", FALSE, 0 - 1, TRUE, TRUE)
          ELSE Read("prefix", FALSE, StationAge(Prefixes(k)[old]), TRUE,
                    CacheIndex(stationCache', Prefixes(k)[old]) = 0)
     /\ UNCHANGED << now, tripCache, ovCache, ovCodeCache, cacheWrites, cacheOutside >>

\* the setInterval sweep of stationCache
StationSweep ==
  /\ stationCache' = StationCacheSwept
  /\ UNCHANGED << now, tripCache, cacheVars, cacheOutside >>

\* ovCacheSet(k, payload)
OvWrite(k) ==
  /\ cacheWrites < MaxCacheWrites
  /\ cacheWrites' = cacheWrites + 1
  /\ ovCache' = [ovCache EXCEPT ![k] = << [t |-> now, payload |-> << >>] >>]
  /\ UNCHANGED << now, tripCache, stationCache, ovCodeCache, lastRead, cacheOutside >>

\* ovCacheGet(k)
OvRead(k) ==
  /\ ovCache' = IF OvCacheFresh(k) THEN ovCache ELSE [ovCache EXCEPT ![k] = <<>>]
  /\ lastRead' = Read("ov", OvCacheFresh(k),
                      IF ovCache[k] = <<>> THEN 0 - 1 ELSE now - ovCache[k][1].t,
                      TRUE, ovCache'[k] = <<>>)
  /\ UNCHANGED << now, tripCache, stationCache, ovCodeCache, cacheWrites, cacheOutside >>

\* ovCodeCacheSet(k, payload, ok)
OvCodeWrite(k, ok) ==
  /\ cacheWrites < MaxCacheWrites
  /\ cacheWrites' = cacheWrites + 1
  /\ ovCodeCache' = [ovCodeCache EXCEPT ![k] = << [t |-> now, payload |-> << >>, ok |-> ok] >>]
  /\ UNCHANGED << now, tripCache, stationCache, ovCache, lastRead, cacheOutside >>

\* ovCodeCacheGet(k)
OvCodeRead(k) ==
  /\ ovCodeCache' = IF OvCodeCacheFresh(k) THEN ovCodeCache
                    ELSE [ovCodeCache EXCEPT ![k] = <<>>]
  /\ lastRead' = Read("ovCode", OvCodeCacheFresh(k),
                      IF ovCodeCache[k] = <<>> THEN 0 - 1 ELSE now - ovCodeCache[k][1].t,
                      IF ovCodeCache[k] = <<>> THEN TRUE ELSE ovCodeCache[k][1].ok,
                      ovCodeCache'[k] = <<>>)
  /\ UNCHANGED << now, tripCache, stationCache, ovCache, cacheWrites, cacheOutside >>

NextCaches ==
  \/ CacheTick
  \/ CacheLeap
  \/ \E k \in Keys : TripWrite(k)
  \/ \E k \in Keys : TripRead(k)
  \/ \E k \in PrefixKeys : StationWrite(k)
  \/ \E k \in PrefixKeys : StationRead(k)
  \/ \E k \in PrefixKeys : StationPrefixRead(k)
  \/ StationSweep
  \/ OvWrite(OvKey)
  \/ OvRead(OvKey)
  \/ \E ok \in BOOLEAN : OvCodeWrite(OvCodeKey, ok)
  \/ OvCodeRead(OvCodeKey)

(***************************************************************************)
(* GET /stations: the exact key, else the prefix fallback with a           *)
(* background resolution, else the awaited resolution.  A request is a     *)
(* caller of the station resolver; its response is its result (200 with    *)
(* the payload, or 502 for a failure).                                     *)
(***************************************************************************)
RouteQueries == {"Ro", "Rot", "Rott", " "}
\* String(req.query.q || "").trim().toLowerCase() on those strings
RouteKey(q) ==
  CASE q = "Ro" -> "ro" [] q = "Rot" -> "rot" [] q = "Rott" -> "rott" [] OTHER -> ""

NoRoute == [key |-> "", via |-> "none", bg |-> 0, caught |-> FALSE]

InitRoute == route = [c \in Callers |-> NoRoute]

\* the Map after stationCacheGet(k) and bestPrefixCached(k)
StationCacheAfterLookup(k) ==
  SelectSeq(StationCacheAfterGet(k),
            LAMBDA e : \E i \in 1..Len(StationCacheAfterPrefix(k)) :
                          StationCacheAfterPrefix(k)[i] = e)

\* before the requests arrive, an earlier resolution of k completes with
\* body: stationCacheSet
RouteWarm(k, body) ==
  /\ \A c \in Callers : route[c] = NoRoute
  /\ cacheWrites < MaxCacheWrites
  /\ cacheWrites' = cacheWrites + 1
  /\ stationCache' = stationCacheSet(stationCache, k, body)
  /\ UNCHANGED << now, handlerVars, resolverRest, poolVars, frontVars, ovCache,
                  ovCodeCache, lastRead, fetchVars, clientVars, engineVars, moreVars >>

\* request c arrives with the query q: the handler runs to its response or
\* to its await (a request is made once; the requests are numbered in the
\* order of their arrival)
\* (NS_API_KEY is configured: requireApiKey(res) lets the request pass)
RouteCall(c, q) ==
  LET k == RouteKey(q)
      pref == bestPrefixCached(k)
      joins == InFlightGet(k) # <<>>
      p == IF joins THEN InFlightGet(k)[1] ELSE nextP + 1
  IN /\ callers[c].pc = "idle"
     /\ route[c] = NoRoute
     /\ \A d \in Callers : d < c => route[d] # NoRoute
     /\ IF k = ""
        THEN /\ callers' = [callers EXCEPT ![c] =
                  [pc |-> "done", p |-> 0, result |-> Ok(<<>>), pending |-> TRUE]]
             /\ route' = [route EXCEPT ![c] = [NoRoute EXCEPT !.via = "empty"]]
             /\ UNCHANGED << stationCache, stationInFlight, promises, nextP, poolQueue >>
        ELSE IF StationCacheHit(k)
        THEN /\ callers' = [callers EXCEPT ![c] =
                  [pc |-> "done", p |-> 0,
                   result |-> Ok(stationCache[CacheIndex(stationCache, k)].payload),
                   pending |-> TRUE]]
             /\ route' = [route EXCEPT ![c] = [NoRoute EXCEPT !.key = k, !.via = "exact"]]
             /\ UNCHANGED << stationCache, stationInFlight, promises, nextP, poolQueue >>
        ELSE /\ joins \/ nextP < MaxPromises
             /\ stationCache' = StationCacheAfterLookup(k)
             /\ IF joins
                THEN UNCHANGED << stationInFlight, promises, nextP, poolQueue >>
                ELSE /\ nextP' = nextP + 1
                     /\ promises' = [promises EXCEPT ![p] =
                          [key |-> k, phase |-> "queued", outcome |-> Failed]]
                     /\ poolQueue' = Append(poolQueue, p)
                     /\ stationInFlight' = [stationInFlight EXCEPT ![k] = << p >>]
             /\ IF pref # 0
                THEN /\ callers' = [callers EXCEPT ![c] =
                          [pc |-> "done", p |-> 0,
                           result |-> Ok(stationCache[CacheIndex(stationCache,
                                                       Prefixes(k)[pref])].payload),
                           pending |-> TRUE]]
                     /\ route' = [route EXCEPT ![c] =
                          [key |-> k, via |-> "prefix", bg |-> p, caught |-> TRUE]]
                ELSE /\ callers' = [callers EXCEPT ![c] =
                          [pc |-> "waiting", p |-> p, result |-> Failed,
                           pending |-> IF joins THEN Pending(p) ELSE TRUE]]
                     /\ route' = [route EXCEPT ![c] = [NoRoute EXCEPT !.key = k, !.via = "await"]]
     /\ UNCHANGED << now, handlerVars, poolActive, delCount, poolVars, frontVars,
                     cacheVars, fetchVars, clientVars, engineVars, opt, ovl, ovf, auto >>

NextRoute ==
  \/ StationTick
  \/ \E k \in PrefixKeys, body \in StationBodies : RouteWarm(k, body)
  \/ \E c \in Callers, q \in RouteQueries : RouteCall(c, q)
  \/ PoolStart
  \/ \E p \in PromiseIds, r \in Answers(StationBodies) : HttpSettle(p, r)
  \/ \E p \in PromiseIds : Continue(p)
  \/ \E c \in Callers : Receive(c)

(***************************************************************************)
(* The station cache at its cap: STATION_MAX_KEYS queries have been        *)
(* resolved and cached before the writes that are looked at.               *)
(***************************************************************************)
\* n earlier resolutions have written the keys "1" .. "n", the first half
\* at time 0 and the rest now: n calls of stationCacheSet on a Map below
\* its cap, each appending its entry
CapFill(n) ==
  /\ stationCache = << >>
  /\ stationCache' = [i \in 1..n |-> [key |-> ToString(i),
                                      t |-> IF 2 * i <= n THEN 0 ELSE now,
                                      payload |-> << >>]]
  /\ UNCHANGED << now, tripCache, cacheVars, cacheOutside >>

NextCap ==
  \/ CacheTick
  \/ CacheLeap
  \/ \E n \in {STATION_MAX_KEYS - 1, STATION_MAX_KEYS} : CapFill(n)
  \/ \E k \in PrefixKeys : StationWrite(k)
  \/ StationSweep

(***************************************************************************)
(* Overlapping searches of one cache key.  Nothing joins a second request  *)
(* to a search in progress: each request that misses the cache runs its    *)
(* own search and writes its own result.  The payload of search number no  *)
(* stands for the options computed from the answers that search fetched.   *)
(***************************************************************************)
OverlapKey == CacheKey(<<"reisx">>, <<"F">>, <<"T">>, <<"D">>, <<>>)
\* the payload of the search that was the no-th to start
SearchPayload(no) == << [search |-> no] >>

InitOverlap == ovl = [started |-> 0, reqs |-> [r \in ReqIds |-> [pc |-> "idle", no |-> 0]]]

\* request r arrives: tripCacheGet(cacheKey); a hit is answered from the
\* cache, a miss starts a search
OverlapArrive(r) ==
  /\ ovl.reqs[r].pc = "idle"
  /\ ovl.started < MaxStarts
  /\ IF TripCacheFresh(OverlapKey)
     THEN /\ ovl' = [ovl EXCEPT !.reqs[r] = [pc |-> "done", no |-> 0]]
          /\ UNCHANGED tripCache
     ELSE /\ ovl' = [ovl EXCEPT !.started = @ + 1,
                                !.reqs[r] = [pc |-> "search", no |-> ovl.started + 1]]
          /\ tripCache' = [tripCache EXCEPT ![OverlapKey] = <<>>]
  /\ UNCHANGED << now, handlerRest, resolverVars, poolVars, frontVars, cacheVars,
                  fetchVars, clientVars, engineVars, opt, route, ovf, auto >>

\* the search of request r ends: tripCacheSet(cacheKey, payload) and the
\* response, or a failure caught (status 500)
OverlapSettle(r, ok) ==
  /\ ovl.reqs[r].pc = "search"
  /\ ovl' = [ovl EXCEPT !.reqs[r].pc = "done"]
  /\ tripCache' = IF ok THEN TripCacheSet(OverlapKey, SearchPayload(ovl.reqs[r].no))
                  ELSE tripCache
  /\ UNCHANGED << now, handlerRest, resolverVars, poolVars, frontVars, cacheVars,
                  fetchVars, clientVars, engineVars, opt, route, ovf, auto >>

\* the response of request r has been sent
OverlapFinish(r) ==
  /\ ovl.reqs[r].pc = "done"
  /\ ovl' = [ovl EXCEPT !.reqs[r] = [pc |-> "idle", no |-> 0]]
  /\ UNCHANGED << now, handlerVars, resolverVars, poolVars, frontVars, cacheVars,
                  fetchVars, clientVars, engineVars, opt, route, ovf, auto >>

NextOverlap ==
  \/ CacheTick
  \/ \E r \in ReqIds : OverlapArrive(r)
  \/ \E r \in ReqIds, ok \in BOOLEAN : OverlapSettle(r, ok)
  \/ \E r \in ReqIds : OverlapFinish(r)

(***************************************************************************)
(* fetchOvTpcSafe (src/server.js): the departure-board fetch of one stop   *)
(* code.  /ov/by-station runs one per stop code of the station under       *)
(* Promise.all.  A fetch is "await" while fetchJsonStrict is awaited and   *)
(* "returned" when the function has returned; seen lists how the attempts  *)
(* made so far ended.                                                      *)
(***************************************************************************)
Stops == 1..NStops
\* how one fetchJsonStrict call ends: the JSON of a 2xx answer, or a throw
\* (abort by the timer, network error, non-2xx status, no JSON)
AttemptEnds == {"ok", "abort", "network", "http", "nojson"}
\* String(e?.message || e)
ErrorText(end) ==
  CASE end = "abort" -> "The user aborted a request."
    [] end = "network" -> "request failed"
    [] end = "http" -> "HTTP 503"
    [] end = "nojson" -> "Server gaf geen JSON terug"

IdleStop == [pc |-> "idle", attempt |-> 0, seen |-> <<>>, result |-> <<>>]

InitOvFetch == ovf = [s \in Stops |-> IdleStop]

\* if (attempt === 2), on the first attempt
LastAttempt_First(attempt) == attempt = 1
\* if (attempt === 2)
LastAttempt(attempt) == attempt = OV_ATTEMPTS

\* fetchOvTpcSafe(tpc): attempt = 1, fetchJsonStrict(url, ..., 8000)
OvTpcCall(s) ==
  /\ ovf[s].pc = "idle"
  /\ ovf' = [ovf EXCEPT ![s] = [pc |-> "await", attempt |-> 1, seen |-> <<>>,
                                result |-> <<>>]]
  /\ UNCHANGED << baseVars, opt, route, ovl, auto >>

\* the awaited fetchJsonStrict ends: return { ok: true, raw }; or the
\* catch block: return { ok: false, error } on the last attempt, the next
\* turn of the loop otherwise
OvTpcSettle(s, end) ==
  /\ ovf[s].pc = "await"
  /\ ovf' = [ovf EXCEPT ![s] =
       IF end = "ok"
       THEN [@ EXCEPT !.pc = "returned", !.seen = Append(@, end),
                      !.result = << [ok |-> TRUE, error |-> ""] >>]
       ELSE IF LastAttempt(ovf[s].attempt)
       THEN [@ EXCEPT !.pc = "returned", !.seen = Append(@, end),
                      !.result = << [ok |-> FALSE, error |-> ErrorText(end)] >>]
       ELSE IF ovf[s].attempt + 1 <= OV_ATTEMPTS
       THEN [@ EXCEPT !.attempt = @ + 1, !.seen = Append(@, end)]
       ELSE [@ EXCEPT !.pc = "returned", !.seen = Append(@, end),
                      !.result = << [ok |-> FALSE, error |-> "onbekend"] >>]]
  /\ UNCHANGED << baseVars, opt, route, ovl, auto >>

\* the map callback of /ov/by-station has taken r
OvTpcTaken(s) ==
  /\ ovf[s].pc = "returned"
  /\ ovf' = [ovf EXCEPT ![s] = IdleStop]
  /\ UNCHANGED << baseVars, opt, route, ovl, auto >>

NextOvFetch ==
  \/ \E s \in Stops : OvTpcCall(s)
  \/ \E s \in Stops, end \in AttemptEnds : OvTpcSettle(s, end)
  \/ \E s \in Stops : OvTpcTaken(s)

(***************************************************************************)
(* The autocomplete of one input field: loadStations (app.js).  Load n is  *)
(* the n-th call; a call that misses the client-side stationCache aborts   *)
(* the fetch of the field's current AbortController and starts its own.    *)
(* list names the query whose stations the datalist shows ("" when it is   *)
(* empty); the answer to a query is a function of the query.               *)
(***************************************************************************)
Loads == 1..MaxLoads
\* what the field may hold: less than two characters, and two queries
TooShort == {"r"}
AutoQueries == TooShort \cup {"ro", "rot"}
NoFlight == [q |-> "", st |-> "none"]

InitAuto ==
  auto = [issued |-> 0, last |-> "", lastFailed |-> FALSE, list |-> "", cache |-> {},
          ctrl |-> 0, flights |-> [n \in Loads |-> NoFlight]]

\* if (stationAbortVan) stationAbortVan.abort(): the fetch of the current
\* controller rejects if it is still awaited
AfterAbort(flights, ctrl) ==
  IF ctrl # 0 /\ flights[ctrl].st = "flying"
  THEN [flights EXCEPT ![ctrl].st = "aborted"]
  ELSE flights

\* loadStations(q, listEl, store, which) up to its await
LoadStations(q) ==
  /\ auto.issued < MaxLoads
  /\ LET n == auto.issued + 1
         base == [auto EXCEPT !.issued = n, !.last = q, !.lastFailed = FALSE]
     IN auto' =
          IF q \in TooShort THEN [base EXCEPT !.list = ""]
          ELSE IF q \in auto.cache THEN [base EXCEPT !.list = q]
          ELSE [base EXCEPT !.ctrl = n,
                            !.flights = [AfterAbort(auto.flights, auto.ctrl)
                                           EXCEPT ![n] = [q |-> q, st |-> "flying"]]]
  /\ UNCHANGED << baseVars, opt, route, ovl, ovf >>

\* fetchJson of load n resolves: stationCache.set(key, data), the list is
\* rebuilt; or it throws (HTTP error, no JSON) and loadStations rejects
AutoResponse(n, ok) ==
  /\ auto.flights[n].st = "flying"
  /\ auto' = IF ok
             THEN [auto EXCEPT !.flights[n] = NoFlight,
                               !.cache = @ \cup {auto.flights[n].q},
                               !.list = auto.flights[n].q]
             ELSE [auto EXCEPT !.flights[n] = NoFlight,
                               !.lastFailed = @ \/ n = auto.issued]
  /\ UNCHANGED << baseVars, opt, route, ovl, ovf >>

\* the aborted fetch of load n rejects with AbortError: loadStations
\* rejects
AutoAborted(n) ==
  /\ auto.flights[n].st = "aborted"
  /\ auto' = [auto EXCEPT !.flights[n] = NoFlight]
  /\ UNCHANGED << baseVars, opt, route, ovl, ovf >>

NextAuto ==
  \/ \E q \in AutoQueries : LoadStations(q)
  \/ \E n \in Loads, ok \in BOOLEAN : AutoResponse(n, ok)
  \/ \E n \in Loads : AutoAborted(n)

(***************************************************************************)
(* fetchWithTimeout and fetchJsonStrict.  A call is "headers" while        *)
(* fetch() is awaited (the abort timer is armed), "body" while r.text() is *)
(* awaited, "settled" when fetchJsonStrict has returned or thrown.  A      *)
(* timer that is due fires before the clock moves on.                      *)
(***************************************************************************)
FetchIds == 1..NFetch
\* the timeouts callers pass: trips; stations and the departure board
Timeouts == {TRIP_TIMEOUT_MS, STATION_TIMEOUT_MS}

IdleCall == [phase |-> "idle", start |-> 0, ms |-> 0, timer |-> FALSE, ok |-> FALSE]
\* the setTimeout of call c is due
TimerDue(c) == fcalls[c].timer /\ now - fcalls[c].start >= fcalls[c].ms

InitFetch == fcalls = [c \in FetchIds |-> IdleCall]

\* Date.now() advances, unless a timer is due
FetchTick ==
  /\ now < MaxFetchTicks * FetchTickMs
  /\ \A c \in FetchIds : ~TimerDue(c)
  /\ now' = now + FetchTickMs
  /\ UNCHANGED << fcalls, fetchOutside >>

\* fetchJsonStrict(url, options, ms): setTimeout(abort, ms), fetch(url)
FetchStart(c, ms) ==
  /\ fcalls[c].phase = "idle"
  /\ fcalls' = [fcalls EXCEPT ![c] =
       [phase |-> "headers", start |-> now, ms |-> ms, timer |-> TRUE, ok |-> FALSE]]
  /\ UNCHANGED << now, fetchOutside >>

\* the timer fires: controller.abort(), fetch() rejects, finally
\* clearTimeout, fetchJsonStrict throws
TimerFire(c) ==
  /\ fcalls[c].phase = "headers"
  /\ TimerDue(c)
  /\ fcalls' = [fcalls EXCEPT ![c].phase = "settled", ![c].timer = FALSE, ![c].ok = FALSE]
  /\ UNCHANGED << now, fetchOutside >>

\* fetch() rejects (network error): finally clearTimeout, fetchJsonStrict
\* throws
FetchFail(c) ==
  /\ fcalls[c].phase = "headers"
  /\ fcalls' = [fcalls EXCEPT ![c].phase = "settled", ![c].timer = FALSE, ![c].ok = FALSE]
  /\ UNCHANGED << now, fetchOutside >>

\* the response headers arrive: fetch() resolves, finally clearTimeout,
\* r.text() is awaited
HeadersArrive(c) ==
  /\ fcalls[c].phase = "headers"
  /\ ~TimerDue(c)
  /\ fcalls' = [fcalls EXCEPT ![c].phase = "body", ![c].timer = FALSE]
  /\ UNCHANGED << now, fetchOutside >>

\* the body has been read (r.text() resolves) or the stream breaks:
\* fetchJsonStrict returns the JSON of a 2xx answer (ok) and throws
\* otherwise
BodyArrive(c, ok) ==
  /\ fcalls[c].phase = "body"
  /\ fcalls' = [fcalls EXCEPT ![c].phase = "settled", ![c].ok = ok]
  /\ UNCHANGED << now, fetchOutside >>

\* the caller has taken the outcome
FetchDone(c) ==
  /\ fcalls[c].phase = "settled"
  /\ fcalls' = [fcalls EXCEPT ![c] = IdleCall]
  /\ UNCHANGED << now, fetchOutside >>

NextFetch ==
  \/ FetchTick
  \/ \E c \in FetchIds, ms \in Timeouts : FetchStart(c, ms)
  \/ \E c \in FetchIds : TimerFire(c)
  \/ \E c \in FetchIds : FetchFail(c)
  \/ \E c \in FetchIds : HeadersArrive(c)
  \/ \E c \in FetchIds, ok \in BOOLEAN : BodyArrive(c, ok)
  \/ \E c \in FetchIds : FetchDone(c)

(***************************************************************************)
(* The departure panel of the page: loadOv and renderOvPanel (app.js).     *)
(* A departure is [expectedTime, plannedTime]; the panel's view is the     *)
(* rows added by addRow, the fallback note and the two "nothing" messages. *)
(***************************************************************************)
\* normalizeTZ(s): a trailing +hhmm becomes +hh:mm
normalizeTZ(s) == IF s.f = "+0100" THEN [s EXCEPT !.f = "+01:00"] ELSE s
\* safeParseTime(s): Null for NaN, Some(t) otherwise
safeParseTime(s) ==
  LET x == normalizeTZ(s)
  IN IF ParseFinite(x) THEN Some(DateParse(x)) ELSE Null

\* const depIso = d.expectedTime || d.plannedTime
DepIso(d) == IF Truthy(d.expectedTime) THEN d.expectedTime ELSE d.plannedTime

\* if (transferMin < 0) return, without the test
TooEarly_Never(transferMin) == FALSE
\* if (transferMin < 0) return
TooEarly(transferMin) == transferMin < 0

\* primair: if (transferMin <= 30), with the fallback's limit
InWithin_Wide(transferMin) == transferMin <= OV_AFTER_MIN
\* primair: if (transferMin <= 30)
InWithin(transferMin) == transferMin <= OV_WITHIN_MIN

\* the forEach over deps.slice(0, 80), from index i on: the items pushed
\* to within and to after, in order
RECURSIVE OvScan(_, _, _)
OvScan(deps, i, trainArrT) ==
  IF i > Len(deps) THEN [within |-> <<>>, after |-> <<>>]
  ELSE LET d == deps[i]
           depT == safeParseTime(DepIso(d))
           rest == OvScan(deps, i + 1, trainArrT)
       IN IF depT = Null \/ trainArrT = Null THEN rest
          ELSE LET transferMin == Round(depT[1] - trainArrT[1])
                   item == [d |-> d, transferMin |-> transferMin]
               IN IF TooEarly(transferMin) THEN rest
                  ELSE IF InWithin(transferMin)
                  THEN [rest EXCEPT !.within = << item >> \o @]
                  ELSE IF transferMin <= OV_AFTER_MIN
                  THEN [rest EXCEPT !.after = << item >> \o @]
                  ELSE rest

\* the rows of the panel: within.slice(0, 25), and after.slice(0, 8) when
\* within is empty and after is not
OvView(scan, deps) ==
  LET fallback == Len(scan.within) = 0 /\ Len(scan.after) > 0
      rows == Take(scan.within, OV_WITHIN_ROWS)
                \o (IF fallback THEN Take(scan.after, OV_AFTER_ROWS) ELSE <<>>)
  IN [rows |-> rows, note |-> fallback, none |-> Len(rows) = 0,
      noDeps |-> Len(deps) = 0, error |-> FALSE]

\* renderOvPanel(panelEl, title, ovData, trainArrIso)
renderOvPanel(deps, trainArrIso) ==
  OvView(OvScan(Take(deps, OV_SCAN_ROWS), 1, safeParseTime(trainArrIso)), deps)

\* the panel before anything is rendered ("Laden...")
BlankView == [rows |-> <<>>, note |-> FALSE, none |-> FALSE, noDeps |-> FALSE, error |-> FALSE]
\* the catch block of loadOv: humanizeError(e)
ErrorView == [BlankView EXCEPT !.error = TRUE]

\* the train's arrival, as the trip option spells it
OvArrTick == 10 * TicksPerMin
OvArrival == Stamp(OvArrTick, "+0100")
\* departure times relative to the arrival, <<minutes, ticks>>
OvOffsets ==
  { <<0 - 1, 0>>, <<0, 0 - 1>>, <<5, 0>>, <<30, 0>>, <<30, 1>>, <<40, 0>>, <<45, 0>>,
    <<60, 0>>, <<90, 0>>, <<120, 0>>, <<120, 1>>, <<150, 0>> }
OvTick(o) == OvArrTick + o[1] * TicksPerMin + o[2]
Departure(t) == [expectedTime |-> Stamp(t, "+0100"), plannedTime |-> NoStamp]
BadDeparture == [expectedTime |-> BadStamp, plannedTime |-> NoStamp]
\* the offsets a board may repeat OvBulk times
OvBulkOffsets == { <<45, 0>>, <<150, 0>> }
\* <<repeated offset or <<0, 0>> for none, an unparseable entry in front>>
OvShapes == ({<<0, 0>>} \X BOOLEAN) \cup (OvBulkOffsets \X {FALSE})

\* n copies of x
Copies(x, n) == [i \in 1..n |-> x]
\* the departures at the ticks ts, ascending, the tick bulkT given extra
\* more times
RECURSIVE SortedBoard(_, _, _)
SortedBoard(ts, bulkT, extra) ==
  IF ts = {} THEN <<>>
  ELSE LET t == CHOOSE x \in ts : \A y \in ts : x <= y
       IN Copies(Departure(t), IF t = bulkT THEN 1 + extra ELSE 1)
            \o SortedBoard(ts \ {t}, bulkT, extra)

\* the departures /ov/by-station answers with: normalizeOvapi keeps the
\* passes with an expected time, merged is sorted by expectedTime (an
\* unparseable one compares as NaN and stays in front) and cut
OvBoard(offs, bulk, bad) ==
  LET ts == {OvTick(o) : o \in offs}
      sorted == IF bulk \in offs THEN SortedBoard(ts, OvTick(bulk), OvBulk - 1)
                ELSE SortedBoard(ts, 0, 0)
  IN Take((IF bad THEN << BadDeparture >> ELSE <<>>) \o sorted, OV_MERGED_ROWS)

InitOv == ovPanel = [phase |-> "idle", arr |-> NoStamp, deps |-> <<>>, view |-> BlankView]

\* loadOv(panelEl, stationCode, title, trainArrIso): "Laden...", fetchJson
LoadOv(arr) ==
  /\ ovPanel.phase \in {"idle", "shown"}
  /\ ovPanel' = [phase |-> "loading", arr |-> arr, deps |-> <<>>, view |-> BlankView]
  /\ UNCHANGED ovOutside

\* fetchJson resolves with the board: renderOvPanel
OvArrive(deps) ==
  /\ ovPanel.phase = "loading"
  /\ ovPanel' = [ovPanel EXCEPT !.phase = "shown", !.deps = deps,
                                !.view = renderOvPanel(deps, ovPanel.arr)]
  /\ UNCHANGED ovOutside

\* fetchJson rejects: the catch block
OvFail ==
  /\ ovPanel.phase = "loading"
  /\ ovPanel' = [ovPanel EXCEPT !.phase = "shown", !.view = ErrorView]
  /\ UNCHANGED ovOutside

NextOv ==
  \/ \E arr \in {OvArrival, BadStamp} : LoadOv(arr)
  \/ \E offs \in SUBSET OvOffsets, shape \in OvShapes :
       OvArrive(OvBoard(offs, shape[1], shape[2]))
  \/ OvFail

\* renderOvPanel takes ovData.departures as the response body gives them:
\* the boards of up to MaxBoardLen different departures, in every order
OrderOffsets == { <<5, 0>>, <<20, 0>>, <<30, 0>>, <<45, 0>>, <<90, 0>> }
AnyOrderBoards ==
  UNION { { [i \in 1..n |-> Departure(OvTick(f[i]))] :
              f \in { g \in [1..n -> OrderOffsets] :
                        \A i, j \in 1..n : i # j => g[i] # g[j] } } :
          n \in 0..MaxBoardLen }

NextOvOrder ==
  \/ \E arr \in {OvArrival, BadStamp} : LoadOv(arr)
  \/ \E deps \in AnyOrderBoards : OvArrive(deps)
  \/ OvFail

(***************************************************************************)
(* The searches of one page: zoekReis (app.js).  Search s is "resolve"     *)
(* while Promise.all of the two resolveCode calls is awaited, "fetch"      *)
(* while fetchJson(url, { signal }) is awaited, "done" after its finally   *)
(* block.  resultaat and humanError hold what was written last and the     *)
(* search that wrote it (0: cleared).                                      *)
(***************************************************************************)
SearchIds == 1..MaxSearches
Cleared == [kind |-> "", by |-> 0]
Written(kind, s) == [kind |-> kind, by |-> s]

\* humanizeError(err) is "": the message names AbortError (and the
\* browser is online)
Silent(err) == err = "AbortError"

InitPage ==
  page = [started |-> 0, inFlightSearch |-> 0, aborted |-> {},
          phase |-> [s \in SearchIds |-> "idle"],
          resultaat |-> Cleared, humanError |-> Cleared, busy |-> FALSE]

\* zoekReis() up to its first await: the areas are cleared, the earlier
\* controller is aborted, a new one is made, the button is disabled
ZoekReis ==
  /\ page.started < MaxSearches
  /\ LET s == page.started + 1
     IN page' = [page EXCEPT
          !.started = s,
          !.inFlightSearch = s,
          !.aborted = IF page.inFlightSearch = 0 THEN @ ELSE @ \cup {page.inFlightSearch},
          !.phase[s] = "resolve",
          !.resultaat = Cleared,
          !.humanError = Cleared,
          !.busy = TRUE]
  /\ UNCHANGED pageOutside

\* the catch block of zoekReis for the error err of search s, then finally
Catch(s, err) ==
  IF Silent(err)
  THEN [page EXCEPT !.phase[s] = "done", !.busy = FALSE]
  ELSE [page EXCEPT !.phase[s] = "done", !.busy = FALSE,
                    !.humanError = Written("error", s),
                    !.resultaat = Written("error", s)]

\* Promise.all([resolveCode, resolveCode]) settles: both codes found (the
\* search fetch is issued), a code missing (hint, return), or the
\* /stations fetch of resolveCode rejected
ResolveCodes(s, out) ==
  /\ page.phase[s] = "resolve"
  /\ page' = CASE out = "codes" -> [page EXCEPT !.phase[s] = "fetch"]
               [] out = "missing" -> [page EXCEPT !.phase[s] = "done", !.busy = FALSE,
                                                  !.humanError = Written("hint", s)]
               [] out = "failed" -> Catch(s, "HTTP 500")
  /\ UNCHANGED pageOutside

\* fetchJson(url, { signal }) of a search that was not aborted settles:
\* options are rendered, "Geen opties gevonden.", or the error is shown
SearchSettle(s, out) ==
  /\ page.phase[s] = "fetch"
  /\ s \notin page.aborted
  /\ page' = CASE out = "options" -> [page EXCEPT !.phase[s] = "done", !.busy = FALSE,
                                                  !.resultaat = Written("options", s)]
               [] out = "empty" -> [page EXCEPT !.phase[s] = "done", !.busy = FALSE,
                                                !.resultaat = Written("empty", s)]
               [] out = "failed" -> Catch(s, "HTTP 500")
  /\ UNCHANGED pageOutside

\* fetchJson(url, { signal }) of an aborted search rejects; the text of
\* the rejection is the browser's: it names AbortError or it does not
SearchAborted(s, err) ==
  /\ page.phase[s] = "fetch"
  /\ s \in page.aborted
  /\ page' = Catch(s, err)
  /\ UNCHANGED pageOutside

NextPage ==
  \/ ZoekReis
  \/ \E s \in SearchIds, out \in {"codes", "missing", "failed"} : ResolveCodes(s, out)
  \/ \E s \in SearchIds, out \in {"options", "empty", "failed"} : SearchSettle(s, out)
  \/ \E s \in SearchIds, err \in {"AbortError", "The operation was aborted."} :
       SearchAborted(s, err)

(***************************************************************************)
(* The loops of one /reis-extreme-b request, by their counts: the via     *)
(* loop over viaCodes, the A query, the loop over aOpts with one B query   *)
(* each.  calls counts the fetchTrips calls of the request.                *)
(***************************************************************************)
\* aOpts without .slice(0, TOP_A)
ATaken_All(n) == n
\* .slice(0, TOP_A) of n normalised A options
ATaken(n) == Min2(n, TOP_A)
\* .slice(0, MAX_VIA) of n via names
ViaTaken(n) == Min2(n, MAX_VIA)

InitFan == fan = [pc |-> "idle", vias |-> 0, vi |-> 0, aOpts |-> 0, ai |-> 0, calls |-> 0]

\* the request arrives (cache miss): the base query is issued
FanStart ==
  /\ fan.pc = "idle"
  /\ fan' = [pc |-> "base", vias |-> 0, vi |-> 0, aOpts |-> 0, ai |-> 0, calls |-> 1]
  /\ UNCHANGED fanOutside

\* the base query settles: failure or enough options (response), or the
\* base trips name names via names of which codes resolve
FanBase(explore, names, codes) ==
  /\ fan.pc = "base"
  /\ codes <= ViaTaken(names)
  /\ fan' = IF explore THEN [fan EXCEPT !.pc = "viaLoop", !.vias = codes]
            ELSE [fan EXCEPT !.pc = "done"]
  /\ UNCHANGED fanOutside

\* head of the via loop and of its task: merge and respond when the codes
\* are used up or the budget is spent, else the A query is issued
FanVia(late) ==
  /\ fan.pc = "viaLoop"
  /\ fan' = IF fan.vi >= fan.vias \/ late THEN [fan EXCEPT !.pc = "done"]
            ELSE [fan EXCEPT !.pc = "aCall", !.calls = @ + 1]
  /\ UNCHANGED fanOutside

\* the A query settles: failure (error response), or n normalised options
FanA(ok, n) ==
  /\ fan.pc = "aCall"
  /\ fan' = IF ok THEN [fan EXCEPT !.pc = "bLoop", !.aOpts = ATaken(n), !.ai = 0]
            ELSE [fan EXCEPT !.pc = "done"]
  /\ UNCHANGED fanOutside

\* head of the loop over aOpts and of its task: the next via when the
\* options are used up or the budget is spent, else the B query is issued
FanB(late) ==
  /\ fan.pc = "bLoop"
  /\ fan' = IF fan.ai >= fan.aOpts \/ late
            THEN [fan EXCEPT !.pc = "viaLoop", !.vi = @ + 1]
            ELSE [fan EXCEPT !.pc = "bCall", !.calls = @ + 1]
  /\ UNCHANGED fanOutside

\* the B query settles: failure (error response), or the next A option
FanBSettle(ok) ==
  /\ fan.pc = "bCall"
  /\ fan' = IF ok THEN [fan EXCEPT !.pc = "bLoop", !.ai = @ + 1]
            ELSE [fan EXCEPT !.pc = "done"]
  /\ UNCHANGED fanOutside

\* the response has been sent
FanFinish ==
  /\ fan.pc = "done"
  /\ fan' = [pc |-> "idle", vias |-> 0, vi |-> 0, aOpts |-> 0, ai |-> 0, calls |-> 0]
  /\ UNCHANGED fanOutside

NextFanOut ==
  \/ FanStart
  \/ \E explore \in BOOLEAN, names \in 0..(MAX_VIA + FanExtra), codes \in 0..MAX_VIA :
       FanBase(explore, names, codes)
  \/ \E late \in BOOLEAN : FanVia(late)
  \/ \E ok \in BOOLEAN, n \in 0..(TOP_A + FanExtra) : FanA(ok, n)
  \/ \E late \in BOOLEAN : FanB(late)
  \/ \E ok \in BOOLEAN : FanBSettle(ok)
  \/ FanFinish

(***************************************************************************)
(* The best-results buffer of one /reis-extreme-b request.  Every via      *)
(* task pushes the combinations it finds; one journey can be found         *)
(* through several via-stations, as the same legs split at another         *)
(* station.  found is the history of all pushes.                           *)
(***************************************************************************)
\* journey i as combineOptions returns it: one A option joined with the
\* i-th B option
Journey(i) ==
  combineOptions(tripToOption(aOne)[1],
                 tripToOption(<< Leg("V", "T", S(20), S(48 + 2 * i)) >>)[1])[1]
IdleBuf ==
  [pc |-> "idle", options |-> <<>>, vias |-> 0, next |-> 0, upto |-> 0,
   best |-> <<>>, found |-> <<>>, resp |-> <<>>]

InitBuf == buf = IdleBuf

\* the base query gave too few options (opts): the via loop begins
BufStart(opts) ==
  /\ buf.pc = "idle"
  /\ buf' = [IdleBuf EXCEPT !.pc = "vias", !.options = opts]
  /\ UNCHANGED bufOutside

\* the next via task begins; it will find the journeys 1..k
BufVia(k) ==
  /\ buf.pc = "vias"
  /\ buf.vias < MAX_VIA
  /\ buf' = [buf EXCEPT !.pc = "via", !.vias = @ + 1, !.next = 1, !.upto = k]
  /\ UNCHANGED bufOutside

\* the via task combines its next pair: pushBest(combo)
BufPush ==
  /\ buf.pc = "via"
  /\ buf.next <= buf.upto
  /\ buf' = [buf EXCEPT !.next = @ + 1,
                        !.best = pushBest(@, Journey(buf.next)),
                        !.found = Append(@, Journey(buf.next))]
  /\ UNCHANGED bufOutside

\* the via task ends
BufViaEnd ==
  /\ buf.pc = "via"
  /\ buf.next > buf.upto
  /\ buf' = [buf EXCEPT !.pc = "vias"]
  /\ UNCHANGED bufOutside

\* the via loop ends (codes used up or budget spent): merge and respond
BufMerge ==
  /\ buf.pc = "vias"
  /\ buf' = [buf EXCEPT !.pc = "done", !.resp = MergeAnswer(buf.options, buf.best)]
  /\ UNCHANGED bufOutside

\* the response has been sent
BufFinish ==
  /\ buf.pc = "done"
  /\ buf' = IdleBuf
  /\ UNCHANGED bufOutside

NextBuffer ==
  \/ \E opts \in {<<>>, Normalize(<< bDirect >>)} : BufStart(opts)
  \/ \E k \in {NJourneys - 1, NJourneys} : BufVia(k)
  \/ BufPush
  \/ BufViaEnd
  \/ BufMerge
  \/ BufFinish

(***************************************************************************)
(* The B query of one retained A option: the upstream answers with trips   *)
(* via -> to in an order of its own, and the handler takes bOpts from the   *)
(* normalised answer.                                                      *)
(***************************************************************************)
\* the trip via -> to of the i-th duration (durations rise with i)
BTrip(i) == << Leg("V", "T", S(20), S(48 + 2 * i)) >>
\* a trip via -> to that tripToOption drops (no parsable departure)
BTripUnusable == << Leg("V", "T", BadStamp, S(48)) >>

\* the trips i..j in rising order of duration
BRising(i, j) == [p \in 1..(j - i + 1) |-> BTrip(i + p - 1)]
\* the trips i..j in falling order of duration
BFalling(i, j) == [p \in 1..(j - i + 1) |-> BTrip(j - p + 1)]
\* the answers of the upstream: a run of trips in either order, with or
\* without an unusable trip in front
BAnswers ==
  LET runs == {BRising(i, j) : i \in 1..NBTrips, j \in 0..NBTrips}
                \cup {BFalling(i, j) : i \in 1..NBTrips, j \in 0..NBTrips}
  IN runs \cup {<< BTripUnusable >> \o r : r \in runs}

IdleB == [pc |-> "idle", bTrips |-> <<>>, bOpts |-> <<>>]

InitBOptions == bsel = IdleB

\* the A -> B task issues its query: bData = await fetchTrips(...)
BQuery ==
  /\ bsel.pc = "idle"
  /\ bsel' = [bsel EXCEPT !.pc = "bCall"]
  /\ UNCHANGED bselOutside

\* the query settles with bTrips:
\* bOpts = bTrips.map(tripToOption).filter(Boolean).slice(0, TOP_B)
BAnswer(bTrips) ==
  /\ bsel.pc = "bCall"
  /\ bsel' = [pc |-> "combine", bTrips |-> bTrips,
              bOpts |-> Take(Normalize(bTrips), TOP_B)]
  /\ UNCHANGED bselOutside

\* the loop over bOpts has run: the task ends
BCombined ==
  /\ bsel.pc = "combine"
  /\ bsel' = IdleB
  /\ UNCHANGED bselOutside

NextBOptions ==
  \/ BQuery
  \/ \E bTrips \in BAnswers : BAnswer(bTrips)
  \/ BCombined

(***************************************************************************)
(* The normalizer on its own: a raw trip is turned into an option, and an  *)
(* option is joined with the option of a second trip.                      *)
(***************************************************************************)
\* the timestamps of the legs: three instants and an unreadable string
OptStamps == {S(0), S(9), S(40), BadStamp}
OptLegs == {Leg("P", "Q", d, a) : d, a \in OptStamps}
\* raw trips of one and two legs, and of three legs around a middle leg
OptTrips ==
  {<< l >> : l \in OptLegs}
    \cup {<< l, k >> : l, k \in OptLegs}
    \cup {<< l, Leg("P", "Q", S(9), S(9)), k >> : l, k \in OptLegs}

InitOptions == opt = [pc |-> "idle", out |-> <<>>]

\* tripToOption(trip)
OptNormalize(trip) ==
  /\ opt.pc = "idle"
  /\ opt' = [pc |-> "single", out |-> tripToOption(trip)]
  /\ UNCHANGED optOutside

\* combineOptions(optA, optB) of the option at hand and the option of trip
OptCombine(trip) ==
  /\ opt.pc = "single"
  /\ opt.out # <<>>
  /\ tripToOption(trip) # <<>>
  /\ opt' = [pc |-> "combo", out |-> combineOptions(opt.out[1], tripToOption(trip)[1])]
  /\ UNCHANGED optOutside

\* the option is dropped
OptDrop ==
  /\ opt.pc # "idle"
  /\ opt' = [pc |-> "idle", out |-> <<>>]
  /\ UNCHANGED optOutside

NextOptions ==
  \/ \E trip \in OptTrips : OptNormalize(trip)
  \/ \E trip \in OptTrips : OptCombine(trip)
  \/ OptDrop

InitSearch ==
  /\ tripCache = [k \in AllKeys |-> <<>>]
  /\ pc = "idle"
  /\ key = <<>>
  /\ t0 = 0
  /\ options = <<>>
  /\ viaNames = <<>>
  /\ viaCodes = <<>>
  /\ ri = 0
  /\ vi = 0
  /\ aOpts = <<>>
  /\ ai = 0
  /\ best = <<>>
  /\ resp = <<>>
  /\ tripCalls = 0
  /\ stationLookups = 0
  /\ joined = [k \in Keys |-> {}]

Init ==
  /\ now = 0
  /\ InitSearch
  /\ InitStations
  /\ InitPools
  /\ InitFront
  /\ InitCaches
  /\ InitFetch
  /\ InitOv
  /\ InitPage
  /\ InitFan
  /\ InitBuf
  /\ InitBOptions
  /\ InitOptions
  /\ InitRoute
  /\ InitOverlap
  /\ InitOvFetch
  /\ InitAuto

\* res.json(payload) with status 200
Answer(payload, src) ==
  /\ resp' = << [status |-> 200, options |-> payload, src |-> src,
                 late |-> outOfTime, failed |-> "none"] >>
  /\ pc' = "done"

\* the catch block: res.status(500).json({ error })
AnswerError(what) ==
  /\ resp' = << [status |-> 500, options |-> <<>>, src |-> "error",
                 late |-> outOfTime, failed |-> what] >>
  /\ pc' = "done"

\* Date.now() advances
Tick ==
  /\ now < MaxTicks * TickMs
  /\ now' = now + TickMs
  /\ UNCHANGED << tripCache, pc, key, t0, options, viaNames, viaCodes, ri, vi,
                  aOpts, ai, best, resp, tripCalls, stationLookups, joined >>
  /\ UNCHANGED stVars

\* GET /reis-extreme-b arrives (API key and parameters present): cache
\* lookup, then the base query is issued
Start(k) ==
  /\ pc = "idle"
  /\ key' = k
  /\ t0' = now
  /\ IF TripCacheFresh(k)
     THEN /\ resp' = << [status |-> 200, options |-> tripCache[k][1].payload,
                         src |-> "cache", late |-> FALSE, failed |-> "none"] >>
          /\ pc' = "done"
          /\ UNCHANGED << tripCache, tripCalls >>
     ELSE /\ tripCache' = [tripCache EXCEPT ![k] = <<>>]
          /\ pc' = "base"
          /\ tripCalls' = 1
          /\ UNCHANGED resp
  /\ UNCHANGED << now, options, viaNames, viaCodes, ri, vi, aOpts, ai, best,
                  stationLookups >>
  /\ joined' = IF TripCacheFresh(k) THEN joined ELSE [joined EXCEPT ![k] = {}]
  /\ UNCHANGED stVars

\* the base query settles with the answer r
BaseSettle(r) ==
  /\ pc = "base"
  /\ IF ~r.ok
     THEN /\ AnswerError("base")
          /\ UNCHANGED << tripCache, options, viaNames, ri, stationLookups >>
     ELSE IF NormalizeThrows(r.body)
     THEN /\ AnswerError("malformed")
          /\ UNCHANGED << tripCache, options, viaNames, ri, stationLookups >>
     ELSE LET opts == Normalize(r.body)
              names == ViaNames(r.body)
          IN /\ options' = opts
             /\ IF Len(opts) >= TARGET
                THEN /\ Answer(BaseAnswer(opts), "base")
                     /\ tripCache' = TripCacheSet(key, BaseAnswer(opts))
                     /\ UNCHANGED << viaNames, ri, stationLookups >>
                ELSE IF outOfTime
                THEN /\ Answer(BudgetAnswer(opts), "budget")
                     /\ tripCache' = TripCacheSet(key, BudgetAnswer(opts))
                     /\ viaNames' = names
                     /\ UNCHANGED << ri, stationLookups >>
                ELSE /\ viaNames' = names
                     /\ ri' = 1
                     /\ stationLookups' = Len(names)
                     /\ pc' = "resolve"
                     /\ UNCHANGED << tripCache, resp >>
  /\ UNCHANGED << now, key, t0, viaCodes, vi, aOpts, ai, best, tripCalls, joined >>
  /\ UNCHANGED stVars

\* the station lookup of via name ri settles with the payload p
ResolveSettle(p) ==
  /\ pc = "resolve"
  /\ ri <= Len(viaNames)
  /\ IF ~p.ok
     THEN /\ AnswerError("station")
          /\ UNCHANGED << viaCodes, ri >>
     ELSE LET code == FindCode(p.body, viaNames[ri])
          IN /\ viaCodes' = IF code # "" THEN Append(viaCodes, code) ELSE viaCodes
             /\ ri' = ri + 1
             /\ UNCHANGED << pc, resp >>
  /\ UNCHANGED << now, tripCache, key, t0, options, viaNames, vi, aOpts, ai, best,
                  tripCalls, stationLookups, joined >>
  /\ UNCHANGED stVars

\* Promise.all of the lookups resolved: the via loop begins
ResolveDone ==
  /\ pc = "resolve"
  /\ ri > Len(viaNames)
  /\ pc' = "viaLoop"
  /\ vi' = 1
  /\ UNCHANGED << now, tripCache, key, t0, options, viaNames, viaCodes, ri,
                  aOpts, ai, best, resp, tripCalls, stationLookups, joined >>
  /\ UNCHANGED stVars

\* head of the via loop: on exhaustion or budget overrun, merge and answer
ViaCheck ==
  /\ pc = "viaLoop"
  /\ IF vi > Len(viaCodes) \/ outOfTime
     THEN /\ Answer(MergeAnswer(options, best), "merge")
          /\ tripCache' = TripCacheSet(key, MergeAnswer(options, best))
     ELSE /\ pc' = "viaTask"
          /\ UNCHANGED << tripCache, resp >>
  /\ UNCHANGED << now, key, t0, options, viaNames, viaCodes, ri, vi, aOpts, ai,
                  best, tripCalls, stationLookups, joined >>
  /\ UNCHANGED stVars

\* the via task runs: budget check, then the A query is issued
ViaTaskStart ==
  /\ pc = "viaTask"
  /\ IF outOfTime
     THEN /\ vi' = vi + 1
          /\ pc' = "viaLoop"
          /\ UNCHANGED tripCalls
     ELSE /\ tripCalls' = tripCalls + 1
          /\ pc' = "aCall"
          /\ UNCHANGED vi
  /\ UNCHANGED << now, tripCache, key, t0, options, viaNames, viaCodes, ri,
                  aOpts, ai, best, resp, stationLookups, joined >>
  /\ UNCHANGED stVars

\* the A query settles with the answer r
ASettle(r) ==
  /\ pc = "aCall"
  /\ IF ~r.ok
     THEN /\ AnswerError("A")
          /\ UNCHANGED << aOpts, ai >>
     ELSE IF NormalizeThrows(r.body)
     THEN /\ AnswerError("malformed")
          /\ UNCHANGED << aOpts, ai >>
     ELSE /\ aOpts' = Take(SortByDuration(Normalize(r.body)), TOP_A)
          /\ ai' = 1
          /\ pc' = "bLoop"
          /\ UNCHANGED resp
  /\ UNCHANGED << now, tripCache, key, t0, options, viaNames, viaCodes, ri, vi,
                  best, tripCalls, stationLookups, joined >>
  /\ UNCHANGED stVars

\* head of the loop over the A options of one via
BCheck ==
  /\ pc = "bLoop"
  /\ IF ai > Len(aOpts) \/ outOfTime
     THEN /\ vi' = vi + 1
          /\ pc' = "viaLoop"
     ELSE /\ pc' = "bTask"
          /\ UNCHANGED vi
  /\ UNCHANGED << now, tripCache, key, t0, options, viaNames, viaCodes, ri,
                  aOpts, ai, best, resp, tripCalls, stationLookups, joined >>
  /\ UNCHANGED stVars

\* the A -> B task runs: budget check, then the B query is issued
BTaskStart ==
  /\ pc = "bTask"
  /\ IF outOfTime
     THEN /\ ai' = ai + 1
          /\ pc' = "bLoop"
          /\ UNCHANGED tripCalls
     ELSE /\ tripCalls' = tripCalls + 1
          /\ pc' = "bCall"
          /\ UNCHANGED ai
  /\ UNCHANGED << now, tripCache, key, t0, options, viaNames, viaCodes, ri, vi,
                  aOpts, best, resp, stationLookups, joined >>
  /\ UNCHANGED stVars

\* the B query settles with the answer r: the A x B pairs are combined
BSettle(r) ==
  /\ pc = "bCall"
  /\ IF ~r.ok
     THEN /\ AnswerError("B")
          /\ UNCHANGED << best, ai >>
     ELSE IF NormalizeThrows(r.body)
     THEN /\ AnswerError("malformed")
          /\ UNCHANGED << best, ai >>
     ELSE /\ best' = CombineLoop(best, aOpts[ai], Take(Normalize(r.body), TOP_B), 1)
          /\ ai' = ai + 1
          /\ pc' = "bLoop"
          /\ UNCHANGED resp
  /\ UNCHANGED << now, tripCache, key, t0, options, viaNames, viaCodes, ri, vi,
                  aOpts, tripCalls, stationLookups >>
  /\ joined' = IF ~r.ok \/ NormalizeThrows(r.body) THEN joined
               ELSE [joined EXCEPT ![key] = @ \cup JoinedPairs(aOpts[ai], Take(Normalize(r.body), TOP_B))]
  /\ UNCHANGED stVars

\* the response has been sent; the request's locals are dropped
Finish ==
  /\ pc = "done"
  /\ pc' = "idle"
  /\ key' = <<>>
  /\ t0' = 0
  /\ options' = <<>>
  /\ viaNames' = <<>>
  /\ viaCodes' = <<>>
  /\ ri' = 0
  /\ vi' = 0
  /\ aOpts' = <<>>
  /\ ai' = 0
  /\ best' = <<>>
  /\ resp' = <<>>
  /\ tripCalls' = 0
  /\ stationLookups' = 0
  /\ UNCHANGED << now, tripCache >>
  /\ joined' = [joined EXCEPT ![key] = {pr \in @ : InPayload(key, combineOptions(pr[1], pr[2]))}]
  /\ UNCHANGED stVars

Next ==
  \/ Tick
  \/ \E k \in Keys : Start(k)
  \/ \E r \in Answers(BaseResponses) : BaseSettle(r)
  \/ \E p \in Answers(StationPayloads(IF pc = "resolve" /\ ri <= Len(viaNames)
                                      THEN viaNames[ri] ELSE "")) : ResolveSettle(p)
  \/ ResolveDone
  \/ ViaCheck
  \/ ViaTaskStart
  \/ \E r \in Answers(AResponses) : ASettle(r)
  \/ BCheck
  \/ BTaskStart
  \/ \E r \in Answers(BResponses) : BSettle(r)
  \/ Finish

Spec == Init /\ [][Next]_vars

SpecStations == Init /\ [][NextStations]_vars

SpecTripPool == Init /\ [][NextTripPool]_vars

SpecStationPool == Init /\ [][NextStationPool]_vars

SpecFront == Init /\ [][NextFront]_vars

SpecCaches == Init /\ [][NextCaches]_vars

SpecCachesFair ==
  /\ Init /\ [][NextCaches]_vars
  /\ WF_vars(CacheTick) /\ WF_vars(CacheLeap) /\ WF_vars(StationSweep)

SpecFetch == Init /\ [][NextFetch]_vars

SpecOv == Init /\ [][NextOv]_vars

SpecFanOut == Init /\ [][NextFanOut]_vars

SpecBuffer == Init /\ [][NextBuffer]_vars

SpecBOptions == Init /\ [][NextBOptions]_vars

SpecOptions == Init /\ [][NextOptions]_vars

SpecRoute == Init /\ [][NextRoute]_vars

SpecCap == Init /\ [][NextCap]_vars

SpecOverlap == Init /\ [][NextOverlap]_vars

SpecOvOrder == Init /\ [][NextOvOrder]_vars

SpecOvFetch == Init /\ [][NextOvFetch]_vars

SpecAuto == Init /\ [][NextAuto]_vars

SpecViaPool == Init /\ [][NextViaPool]_vars

SpecPage == Init /\ [][NextPage]_vars

(***************************************************************************)
(* Properties of the combination search (Spec)                             *)
(***************************************************************************)
Responded == pc = "done"
Succeeded == pc = "done" /\ resp[1].status = 200
\* the request got past base query and via resolution into the via loop
Explored == pc = "done" /\ resp[1].src # "cache" /\ vi >= 1

\* number of entries of the sequence s equal to x
CountOf(s, x) == Cardinality({i \in 1..Len(s) : s[i] = x})
Range(s) == {s[i] : i \in 1..Len(s)}

\* the transfer gap of a joined pair, as the A x B loop computes it
JoinGap(pr) == Round(DateParse(pr[2].depart) - DateParse(pr[1].arrive))

\* C1: once the budget deadline has passed during the via exploration, the
\* request answers successfully (status 200) with the merge of the base
\* options and the combinations collected so far, never with an error.
C1_OverrunAnswersWithCollected ==
  (Explored /\ resp[1].late)
    => /\ resp[1].status = 200
       /\ resp[1].options = MergeAnswer(options, best)

\* The part of C1 that the code keeps: no A query and no B query is issued
\* for a request whose budget is spent.
C1_NoNewCallAfterDeadline ==
  [][(pc \in {"viaLoop", "viaTask", "bLoop", "bTask"} /\ outOfTime)
       => tripCalls' <= tripCalls]_vars

\* C2: a failed A-leg or B-leg query removes only that via's contribution:
\* every request that reached the via exploration answers with status 200.
C2_LegFailureKeepsSearch ==
  Explored => resp[1].status = 200

\* C5: no successful response holds two options with the same
\* optionSignature.
C5_NoDuplicateSignature ==
  Succeeded =>
    \A i, j \in 1..Len(resp[1].options) :
      i < j => optionSignature(resp[1].options[i]) # optionSignature(resp[1].options[j])

\* C6: every successful response holds at most TARGET options, in
\* non-decreasing score order.
C6_AtMostTargetSorted ==
  Succeeded =>
    /\ Len(resp[1].options) <= TARGET
    /\ \A i, j \in 1..Len(resp[1].options) :
         i < j => scoreOption(resp[1].options[i]) <= scoreOption(resp[1].options[j])

C8_JoinWithinTransferWindow ==
  /\ \A k \in Keys : \A pr \in joined[k] : JoinGap(pr) >= 0 /\ JoinGap(pr) <= MAX_TRANSFER
  /\ \A i \in 1..Len(best) :
       \E pr \in joined[key] : <<best[i]>> = combineOptions(pr[1], pr[2])
  /\ Succeeded =>
       \A i \in 1..Len(resp[1].options) :
         resp[1].options[i].mode = "combo" =>
           \E pr \in joined[key] : <<resp[1].options[i]>> = combineOptions(pr[1], pr[2])

\* C8 witness: a response holds a combination joined with a gap of exactly
\* MAX_TRANSFER minutes, and one joined although the B departure lies
\* (less than half a minute) before the A arrival.
C8_Witness ==
  /\ Succeeded
  /\ \E i, j \in 1..Len(resp[1].options) :
       \E p1, p2 \in joined[key] :
         /\ <<resp[1].options[i]>> = combineOptions(p1[1], p1[2])
         /\ JoinGap(p1) = MAX_TRANSFER
         /\ <<resp[1].options[j]>> = combineOptions(p2[1], p2[2])
         /\ DateParse(p2[2].depart) < DateParse(p2[1].arrive)

\* C9: every option of a response has durationMin equal to
\* round((arrive - depart) / 60000) and durationMin >= 0.
C9_DurationRoundedNonNegative ==
  Succeeded =>
    \A i \in 1..Len(resp[1].options) :
      LET o == resp[1].options[i]
      IN /\ o.durationMin = Round(DateParse(o.arrive) - DateParse(o.depart))
         /\ o.durationMin >= 0

\* The part of C9 that the code keeps: durationMin is the rounded difference.
C9_DurationRounded ==
  Succeeded =>
    \A i \in 1..Len(resp[1].options) :
      LET o == resp[1].options[i]
      IN o.durationMin = Round(DateParse(o.arrive) - DateParse(o.depart))

\* C10: minTransferMin of every returned option is null or >= 0 (negative
\* leg gaps are left out of the minimum).
C10_MinTransferNonNegative ==
  Succeeded =>
    \A i \in 1..Len(resp[1].options) :
      LET o == resp[1].options[i]
      IN o.minTransferMin = Null \/ o.minTransferMin[1] >= 0

(***************************************************************************)
(* Properties of the station resolver (SpecStations)                       *)
(***************************************************************************)
Started == 1..nextP

\* C3: callers of fetchStationsCached whose calls for one un-cached key
\* overlap share one upstream call: no two unsettled resolutions have the
\* same key, callers waiting on an unsettled resolution of one key wait on
\* the same one, and each caller receives the outcome of the resolution it
\* waited on.
C3_OneCallPerKey ==
  /\ \A p1, p2 \in Started :
       (p1 # p2 /\ Pending(p1) /\ Pending(p2)) => promises[p1].key # promises[p2].key
  /\ \A c, d \in Callers :
       (/\ callers[c].pc = "waiting" /\ callers[d].pc = "waiting"
        /\ Pending(callers[c].p) /\ Pending(callers[d].p)
        /\ promises[callers[c].p].key = promises[callers[d].p].key)
         => callers[c].p = callers[d].p
  /\ \A c \in Callers :
       (callers[c].pc = "done" /\ callers[c].p # 0)
         => callers[c].result = promises[callers[c].p].outcome

\* C3 witness: two callers wait on the one resolution of a key whose
\* upstream call is out, and no other resolution was started.
C3_Witness ==
  /\ nextP = 1
  /\ promises[1].phase = "running"
  /\ \A c \in Callers : callers[c].pc = "waiting" /\ callers[c].p = 1

\* C4: the in-flight entry of a resolution is there from its start to its
\* settlement and is removed exactly once, when it settles with a result
\* or with an error: stationInFlight holds only unsettled resolutions under
\* their own key, so a caller is never handed a settled promise and a call
\* after a failed resolution starts a fresh one.
C4_InFlightClearedOnce ==
  /\ \A k \in StKeys :
       stationInFlight[k] # <<>> =>
         /\ Pending(stationInFlight[k][1])
         /\ promises[stationInFlight[k][1]].key = k
  /\ \A p \in Started :
       /\ Pending(p) => stationInFlight[promises[p].key] = <<p>>
       /\ delCount[p] = IF Pending(p) THEN 0 ELSE 1
  /\ \A c \in Callers : callers[c].pending

\* C4 witness: a resolution was rejected and a later call for the same key
\* started a fresh resolution.
C4_Witness ==
  \E p1, p2 \in Started :
    /\ p1 < p2
    /\ promises[p1].phase = "rejected"
    /\ Pending(p2)
    /\ promises[p2].key = promises[p1].key

\* the queries whose trimmed text has fewer than 2 characters
ShortQueries == {"U", " "}

\* C16: a station query whose trimmed text has fewer than 2 characters
\* gets an empty list and causes no upstream station call: the call of
\* fetchStationsCached returns [] at once and starts no resolution.
C16_ShortQueryShortCircuits ==
  [][\A c \in Callers, q \in ShortQueries :
       CallStations(c, q) =>
         /\ nextP' = nextP
         /\ poolQueue' = poolQueue
         /\ callers'[c].pc = "done"
         /\ callers'[c].result = Ok(<<>>)]_vars

\* The part of C16 that the code keeps: an empty trimmed query gets an
\* empty list and starts no resolution.
C16_EmptyQueryShortCircuits ==
  [][\A c \in Callers :
       CallStations(c, " ") =>
         /\ nextP' = nextP
         /\ poolQueue' = poolQueue
         /\ callers'[c].pc = "done"
         /\ callers'[c].result = Ok(<<>>)]_vars

(***************************************************************************)
(* Properties of the pools (SpecTripPool, SpecStationPool)                 *)
(***************************************************************************)
\* C11: at every moment at most TRIPS_CONCURRENCY (6) upstream trip HTTP
\* calls are in flight, counted over all /reis and /reis-extreme-b requests
\* and over base, A-leg and B-leg calls.
C11_TripCallsCapped ==
  /\ TripHttpInFlight <= TRIPS_CONCURRENCY
  /\ TripHttpInFlight <= tripActive
  /\ tripActive <= TRIPS_CONCURRENCY

\* C11 witness: six trip calls are in flight, one of them of a
\* /reis-extreme-b request, and a further call waits in the queue.
C11_Witness ==
  /\ TripHttpInFlight = TRIPS_CONCURRENCY
  /\ \E e \in ExtIds : ext[e] = "baseRun"
  /\ \E i \in 1..Len(tripQueue) : tripQueue[i].kind = "http"

\* C12: at every moment at most STATIONS_CONCURRENCY (4) upstream station
\* HTTP calls are in flight, counted over every code path that calls the
\* station API.
C12_StationCallsCapped ==
  StationHttpInFlight <= STATIONS_CONCURRENCY

\* The part of C12 that the code keeps: the station calls made through
\* fetchStationsFromNS are at most STATIONS_CONCURRENCY.
C12_PooledStationCallsCapped ==
  /\ stRun.http + stRun.httpW <= STATIONS_CONCURRENCY
  /\ stActive = stRun.wrap + stRun.hit + stRun.http + stRun.httpW
  /\ stActive <= STATIONS_CONCURRENCY

(***************************************************************************)
(* Properties of the front of the search handlers (SpecFront)              *)
(***************************************************************************)
SameSearch(a, b) == freq[a].ep = freq[b].ep /\ freq[a].q = freq[b].q

\* C13: two identical search requests (same endpoint and query tuple) that
\* arrive while no result for them is cached cause one upstream
\* computation: they are never both waiting for a base query of their own.
C13_IdenticalRequestsShareOneCall ==
  \A a, b \in ReqIds :
    (a # b /\ freq[a].pc \in {"base", "explore"} /\ freq[b].pc \in {"base", "explore"})
      => ~SameSearch(a, b)

\* C14: a request is served a cached payload only if the payload was
\* computed for the same endpoint and the same (van, naar, datetime,
\* searchForArrival) tuple.
C14_CachedPayloadIsOwn ==
  \A r \in ReqIds :
    (freq[r].pc = "done" /\ freq[r].resp.src = "cache")
      => freq[r].resp.payload = PayloadFor(freq[r].ep, freq[r].q)

\* The part of C14 that the code keeps: the two endpoints never share a
\* key, and neither do tuples that differ in searchForArrival only.
C14_EndpointAndDirectionKeyed ==
  \A a, b \in ReqIds :
    (freq[a].pc # "idle" /\ freq[b].pc # "idle"
       /\ KeyOf(freq[a].ep, freq[a].q) = KeyOf(freq[b].ep, freq[b].q))
      => freq[a].ep = freq[b].ep /\ freq[a].q.sfa = freq[b].q.sfa

\* C17: a request whose base query failed is answered with HTTP 5xx and a
\* JSON {error} body, after its one base call, and no via exploration is
\* started for it.
C17_BaseFailureIsFatal ==
  \A r \in ReqIds :
    freq[r].baseOk = "failed"
      => /\ freq[r].pc = "done"
         /\ freq[r].resp.status >= 500 /\ freq[r].resp.status <= 599
         /\ freq[r].resp.error
         /\ ~freq[r].explored
         /\ freq[r].calls = 1

\* C17 witness: the base query of a /reis request and that of a
\* /reis-extreme-b request have failed.
C17_Witness ==
  \E a, b \in ReqIds :
    /\ freq[a].baseOk = "failed" /\ freq[a].ep = <<"reis">>
    /\ freq[b].baseOk = "failed" /\ freq[b].ep = <<"reisx">>

\* the request's tuple lacks van, naar or datetime
Lacks(q) == \E f \in {"van", "naar", "datetime"} : q[f] = <<>>

\* C18 as stated: a request that lacks van, naar or datetime is answered
\* with HTTP 4xx and a JSON error, with no upstream call and no trip-cache
\* read or write.
C18_MissingParamsAre4xx ==
  \A r \in ReqIds :
    (freq[r].pc = "done" /\ Lacks(freq[r].q))
      => /\ freq[r].resp.status >= 400 /\ freq[r].resp.status <= 499
         /\ freq[r].resp.error
         /\ freq[r].calls = 0 /\ freq[r].cacheOps = 0

\* C18 amended: on a server whose NS_API_KEY is set, a request that lacks
\* van, naar or datetime is answered with HTTP 400 and a JSON error; on
\* one without the key with HTTP 500 and a JSON error; in both cases with
\* no upstream call and no trip-cache read or write.
C18_MissingParamsRejected ==
  \A r \in ReqIds :
    (freq[r].pc # "idle" /\ Lacks(freq[r].q))
      => /\ freq[r].pc = "done"
         /\ freq[r].resp.status = IF apiKey THEN 400 ELSE 500
         /\ freq[r].resp.error
         /\ freq[r].calls = 0 /\ freq[r].cacheOps = 0
         /\ tripCache[KeyOf(freq[r].ep, freq[r].q)] = <<>>

\* C18 witness: with the key set, a request without naar and a request
\* without datetime have been answered while the cache holds a payload.
C18_Witness ==
  /\ apiKey
  /\ \E k \in AllKeys : tripCache[k] # <<>>
  /\ \E a, b \in ReqIds :
       /\ freq[a].pc = "done" /\ freq[a].q.naar = <<>> /\ freq[a].q.van # <<>>
       /\ freq[b].pc = "done" /\ freq[b].q.datetime = <<>> /\ freq[b].q.van # <<>>

(***************************************************************************)
(* Properties of the caches (SpecCaches)                                   *)
(***************************************************************************)
\* the TTL of the cache a read was made in
TtlOf(r) ==
  CASE r.cache = "trip" -> TRIP_TTL_MS
    [] r.cache \in {"station", "prefix"} -> STATION_TTL_MS
    [] r.cache = "ov" -> OV_TTL_MS
    [] r.cache = "ovCode" -> IF r.ok THEN OV_CODE_TTL_OK_MS ELSE OV_CODE_TTL_ERR_MS
    [] OTHER -> 0

\* C15: no read of the trip cache, the station cache (exact or prefix) or
\* the departure-board caches returns a payload whose age exceeds the
\* cache's TTL; a read that finds such an entry deletes it and reports a
\* miss.
C15_NoStaleRead ==
  /\ lastRead.hit => (lastRead.age >= 0 /\ lastRead.age <= TtlOf(lastRead))
  /\ lastRead.age > TtlOf(lastRead) => (~lastRead.hit /\ lastRead.gone)
  /\ (lastRead.cache # "none" /\ lastRead.age >= 0 /\ lastRead.age <= TtlOf(lastRead)
        /\ lastRead.cache # "prefix") => lastRead.hit

\* C15 witness: the prefix lookup found entries, all of them older than the
\* TTL, deleted them and reported a miss.
C15_Witness ==
  /\ lastRead.cache = "prefix"
  /\ lastRead.age > STATION_TTL_MS
  /\ ~lastRead.hit
  /\ stationCache = << >>
  /\ cacheWrites = MaxCacheWrites

(***************************************************************************)
(* Properties of the upstream calls (SpecFetch)                            *)
(***************************************************************************)
\* C19: every upstream call made through fetchJsonStrict settles no later
\* than its timeout after it was started, also while its body is read, and
\* its timer is cancelled in every outcome.
C19_SettlesWithinTimeout ==
  \A c \in FetchIds :
    /\ fcalls[c].phase \in {"headers", "body"}
         => now - fcalls[c].start <= fcalls[c].ms
    /\ fcalls[c].phase = "settled" => ~fcalls[c].timer

\* The part of C19 that the code keeps: while fetch() is awaited the call
\* is no older than its timeout (up to the clock's step), and the timer is
\* cancelled once fetch() has settled.
C19_HeadersWithinTimeout ==
  \A c \in FetchIds :
    /\ fcalls[c].phase = "headers"
         => now - fcalls[c].start < fcalls[c].ms + FetchTickMs
    /\ fcalls[c].phase \in {"body", "settled", "idle"} => ~fcalls[c].timer

(***************************************************************************)
(* Malformed trip records (Spec)                                           *)
(***************************************************************************)
\* C20: tripToOption never throws for a malformed raw trip record (a null
\* trip, a null leg in the legs list), so no search is answered with an
\* error because of one malformed record.
C20_MalformedRecordNeverFails ==
  Responded => resp[1].failed # "malformed"

\* The part of C20 that the code keeps: a trip without legs or with a
\* missing or unparseable first departure or last arrival is dropped, so
\* every normalised option has legs and parseable end timestamps.
C20_UnusableTripsDropped ==
  \A i \in 1..Len(options) :
    /\ options[i].legs # <<>>
    /\ ParseFinite(options[i].depart)
    /\ ParseFinite(options[i].arrive)

(***************************************************************************)
(* Properties of the departure panel (SpecOv)                              *)
(***************************************************************************)
\* the panel shows a rendered board
OvShown == ovPanel.phase = "shown" /\ ~ovPanel.view.error
\* transferMinutes of a departure: round((expectedTime - arrival) / 60000),
\* Null when either time cannot be read
TransferOf(d) ==
  LET e == safeParseTime(d.expectedTime)
      a == safeParseTime(ovPanel.arr)
  IN IF e = Null \/ a = Null THEN Null ELSE Some(Round(e[1] - a[1]))
TransferIn(d, lo, hi) ==
  TransferOf(d) # Null /\ lo <= TransferOf(d)[1] /\ TransferOf(d)[1] <= hi
TransferFrom(d, lo) == TransferOf(d) # Null /\ lo <= TransferOf(d)[1]
\* the departures of the board with lo <= transferMinutes <= hi, in order
BoardIn(lo, hi) ==
  PickFrom(ovPanel.deps, 1,
           {i \in 1..Len(ovPanel.deps) : TransferIn(ovPanel.deps[i], lo, hi)})
\* the departures of the board with transferMinutes >= lo, in order
BoardFrom(lo) ==
  PickFrom(ovPanel.deps, 1,
           {i \in 1..Len(ovPanel.deps) : TransferFrom(ovPanel.deps[i], lo)})
\* the departures shown, in order
RowDeps == [i \in 1..Len(ovPanel.view.rows) |-> ovPanel.view.rows[i].d]

\* C21: no departure shown has a negative transferMinutes, in the primary
\* window and in the fallback window.
C21_NoNegativeRow ==
  OvShown => \A i \in 1..Len(RowDeps) : TransferFrom(RowDeps[i], 0)

\* C21 witness: a board with a departure before the arrival is rendered
\* through the fallback window and rows are shown.
C21_Witness ==
  /\ OvShown
  /\ \E i \in 1..Len(ovPanel.deps) :
       TransferOf(ovPanel.deps[i]) # Null /\ TransferOf(ovPanel.deps[i])[1] < 0
  /\ ovPanel.view.note
  /\ Len(RowDeps) > 0

\* C22: when some departure has 0 <= transferMinutes <= 30, the panel
\* shows exactly the departures in that range, up to the row cap, and none
\* with transferMinutes > 30.
C22_PrimaryWindowExact ==
  (OvShown /\ Len(BoardIn(0, OV_WITHIN_MIN)) > 0)
    => RowDeps = Take(BoardIn(0, OV_WITHIN_MIN), OV_WITHIN_ROWS)

\* C22 witness: a board with a departure within 30 minutes and one beyond
\* is rendered, and only the first is shown.
C22_Witness ==
  /\ OvShown
  /\ Len(BoardIn(0, OV_WITHIN_MIN)) = 1
  /\ Len(BoardFrom(OV_WITHIN_MIN + 1)) > 0
  /\ Len(RowDeps) = 1

\* C23: when no departure has 0 <= transferMinutes <= 30 and some
\* departure has 30 < transferMinutes <= 60, only departures with
\* transferMinutes <= 60 are shown.
C23_SecondWindowWithin60 ==
  (OvShown /\ Len(BoardIn(0, OV_WITHIN_MIN)) = 0
           /\ Len(BoardIn(OV_WITHIN_MIN + 1, 60)) > 0)
    => \A i \in 1..Len(RowDeps) : TransferIn(RowDeps[i], 0, 60)

\* What the code does in the case of C23: the fallback shows the first
\* OV_AFTER_ROWS departures with 30 < transferMinutes <= 120, with the note.
C23_FallbackWithin120 ==
  (OvShown /\ Len(BoardIn(0, OV_WITHIN_MIN)) = 0
           /\ Len(BoardIn(OV_WITHIN_MIN + 1, OV_AFTER_MIN)) > 0)
    => /\ RowDeps = Take(BoardIn(OV_WITHIN_MIN + 1, OV_AFTER_MIN), OV_AFTER_ROWS)
       /\ ovPanel.view.note

\* C24: when no departure has 0 <= transferMinutes <= 60 and some
\* departure has transferMinutes >= 0, the earliest such departures are
\* shown, however late, with the note; the panel is empty only when no
\* departure has transferMinutes >= 0.
C24_UnboundedFallback ==
  (OvShown /\ Len(BoardIn(0, 60)) = 0 /\ Len(BoardFrom(0)) > 0)
    => /\ Len(RowDeps) > 0
       /\ RowDeps = Take(BoardFrom(0), Len(RowDeps))
       /\ ovPanel.view.note

(***************************************************************************)
(* Properties of the page's searches (SpecPage)                            *)
(***************************************************************************)
\* C25: once a newer search has started, an earlier search of the page
\* writes neither its result nor an error message into the results area:
\* what the area holds was written by the newest search.
C25_OnlyNewestSearchWrites ==
  page.resultaat.by \in {0, page.started}

\* The part of C25 that the code keeps: a superseded search never renders
\* options or "no options"; what it writes is an error message.
C25_SupersededResultDiscarded ==
  page.resultaat.kind \in {"options", "empty"} => page.resultaat.by = page.started

(***************************************************************************)
(* Progress of the pools (SpecViaPool, SpecStationPool)                    *)
(***************************************************************************)
\* every slot of limitTrips is held by a via task or an A->B task whose
\* fetchTrips call waits in the queue, and no trip call is in flight
TripPoolStalled ==
  /\ tripActive = TRIPS_CONCURRENCY
  /\ tripQueue # <<>>
  /\ TripHttpInFlight = 0
  /\ \A e \in DOMAIN ext : ext[e] \in {"idle", "baseQ", "viaQ", "aQ", "abQ", "bQ"}

\* C26: the via exploration always completes for any number of concurrent
\* /reis-extreme-b requests: there is no state where all slots of
\* limitTrips are held by tasks that wait for a slot of limitTrips.
C26_ViaExplorationNeverStalls == ~TripPoolStalled

\* every slot of limitStations is held by a via-resolution wrapper whose
\* station call waits in the queue
StationPoolStalled ==
  /\ stActive = STATIONS_CONCURRENCY
  /\ stRun.wrap = STATIONS_CONCURRENCY
  /\ stRun.httpW = 0

\* C27: the via-station resolution always completes for any 0..MAX_VIA via
\* names, cached or not: there is no state where every slot of
\* limitStations is held by a lookup that waits for a slot of limitStations.
C27_ViaResolutionNeverStalls == ~StationPoolStalled

(***************************************************************************)
(* Properties of one combination search (SpecFanOut, SpecBuffer)           *)
(***************************************************************************)
\* C28: one combination search issues at most 1 + MAX_VIA x (1 + TOP_A)
\* upstream trip calls.
C28_TripCallsBounded == fan.calls <= 1 + MAX_VIA * (1 + TOP_A)

\* C28 witness: a search has issued all 1 + MAX_VIA x (1 + TOP_A) calls,
\* each A answer holding more than TOP_A options.
C28_Witness ==
  /\ fan.calls = 1 + MAX_VIA * (1 + TOP_A)
  /\ fan.vias = MAX_VIA
  /\ fan.aOpts = TOP_A

\* the answer of an unbounded buffer: the TARGET lowest-score options of
\* the deduplicated union of the base options and everything found
UnboundedAnswer == Take(SortByScore(Dedupe(buf.options \o buf.found)), TARGET)

\* C29: the bounded buffer does not change the answer: the response is
\* the answer an unbounded buffer gives, also when a journey is found
\* through several via-stations.
C29_BufferKeepsAnswer == buf.pc = "done" => buf.resp = UnboundedAnswer

\* The part of C29 that the code keeps: while the buffer has never been
\* trimmed, the response is the unbounded answer.
C29_UntrimmedBufferKeepsAnswer ==
  (buf.pc = "done" /\ Len(buf.found) <= BEST_CAP) => buf.resp = UnboundedAnswer

(***************************************************************************)
(* The B options of one A option                                           *)
(***************************************************************************)
\* the normalised options of the answer that were not taken into bOpts
BLeftOut ==
  LET all == Normalize(bsel.bTrips)
  IN {all[i] : i \in 1..Len(all)} \ Range(bsel.bOpts)

\* C30: for a retained A option, the B options taken into combination are
\* the TOP_B shortest-duration options among the normalised via -> to
\* trips of the answer, whatever order the upstream returns them in: as
\* many as TOP_B allows, and none left out is shorter than one taken.
C30_BOptionsAreShortest ==
  bsel.pc = "combine" =>
    /\ Len(bsel.bOpts) = Min2(Len(Normalize(bsel.bTrips)), TOP_B)
    /\ \A o \in BLeftOut : \A i \in 1..Len(bsel.bOpts) :
         bsel.bOpts[i].durationMin <= o.durationMin

\* C30 (what the code does): the B options taken are the first TOP_B
\* normalised options in the order of the answer, so they are the
\* shortest whenever the answer has at most TOP_B usable trips.
C30_FewTripsAllTaken ==
  (bsel.pc = "combine" /\ Len(Normalize(bsel.bTrips)) <= TOP_B) => BLeftOut = {}

(***************************************************************************)
(* Score and minimum transfer of an option                                 *)
(***************************************************************************)
\* the penalty of a minimum transfer: 2 x (m - 10) above 10 minutes, else
\* 0; no penalty without a transfer
PenaltyOf(minT) == IF minT # Null /\ minT[1] > 10 THEN 2 * (minT[1] - 10) ELSE 0

\* C31: the score of every option equals durationMin plus
\* 2 x (minTransferMin - 10) when minTransferMin > 10 and plus 0 otherwise,
\* including options whose minTransferMin is null.
C31_ScoreIsDurationPlusPenalty ==
  \A o \in Range(opt.out) : scoreOption(o) = o.durationMin + PenaltyOf(o.minTransferMin)

\* C31 (what the code does): the score is durationMin plus the penalty for
\* every option that has a minimum transfer.
C31_ScoreOfOptionWithTransfer ==
  \A o \in Range(opt.out) :
    o.minTransferMin # Null => scoreOption(o) = o.durationMin + PenaltyOf(o.minTransferMin)

\* the consecutive pairs of legs whose two timestamps Date.parse can read
ReadableGaps(legs) ==
  {i \in 1..(Len(legs) - 1) : ParseFinite(legs[i].arr) /\ ParseFinite(legs[i + 1].dep)}
\* the gap between leg i and leg i + 1, in minutes
GapAt(legs, i) == Round(DateParse(legs[i + 1].dep) - DateParse(legs[i].arr))
\* the smallest of the readable gaps
MinGap(legs) ==
  LET gaps == {GapAt(legs, i) : i \in ReadableGaps(legs)}
  IN CHOOSE m \in gaps : \A g \in gaps : m <= g

\* C32: for every option, Direct or Combination, minTransferMin equals the
\* minimum of the gaps between the consecutive legs of its legs list, and
\* is null exactly when the option has fewer than two legs.
C32_MinTransferIsMinGap ==
  \A o \in Range(opt.out) :
    /\ o.minTransferMin = Null <=> Len(o.legs) < 2
    /\ ReadableGaps(o.legs) # {} => o.minTransferMin = Some(MinGap(o.legs))

\* C32 (amended): for every option, Direct or Combination, minTransferMin
\* equals the minimum of the gaps between those consecutive legs of its
\* legs list whose timestamps can be read, and is null exactly when there
\* is no such gap (fewer than two legs, or no readable pair).
C32_MinTransferOverReadableGaps ==
  \A o \in Range(opt.out) :
    IF ReadableGaps(o.legs) = {} THEN o.minTransferMin = Null
    ELSE o.minTransferMin = Some(MinGap(o.legs))

\* C32 witness: a Combination whose legs have an unreadable gap and
\* readable gaps of different lengths, the smallest one inside its second
\* part.
C32_Witness ==
  /\ opt.pc = "combo"
  /\ opt.out # <<>>
  /\ LET legs == opt.out[1].legs
     IN /\ Cardinality(ReadableGaps(legs)) < Len(legs) - 1
        /\ Cardinality({GapAt(legs, i) : i \in ReadableGaps(legs)}) >= 2
        /\ GapAt(legs, Len(legs) - 1) = MinGap(legs)
        /\ Len(legs) - 1 \in ReadableGaps(legs)
        /\ \A i \in ReadableGaps(legs) \ {Len(legs) - 1} : GapAt(legs, i) > MinGap(legs)

(***************************************************************************)
(* GET /stations: the prefix fallback                                      *)
(***************************************************************************)
\* the entry of k in the station cache is present and within its TTL
FreshEntry(k) ==
  \E i \in 1..Len(stationCache) :
    stationCache[i].key = k /\ now - stationCache[i].t <= STATION_TTL_MS
\* the payload cached under k
CachedPayload(k) ==
  stationCache[CHOOSE i \in 1..Len(stationCache) : stationCache[i].key = k].payload
\* the proper prefixes of k of length >= 2 that are cached and fresh, as
\* indices of Prefixes(k) (longest first)
FreshPrefixes(k) == {i \in 1..Len(Prefixes(k)) : FreshEntry(Prefixes(k)[i])}
LongestFreshPrefix(k) ==
  Prefixes(k)[CHOOSE i \in FreshPrefixes(k) : \A j \in FreshPrefixes(k) : i <= j]

\* the step in which request c arrives and is handled
RouteArrives(c) == route[c] = NoRoute /\ route'[c] # NoRoute

\* C33: on GET /stations, when the exact key is not cached but a proper
\* prefix of length >= 2 is cached and fresh, the response is the payload
\* of the longest such prefix, sent in the arrival step (no upstream call
\* is awaited); the full query is resolved in the background, joining a
\* pending resolution of the same key rather than starting a second one;
\* a failed background resolution leaves the response as sent and is
\* caught.
C33_PrefixFallback ==
  [][\A c \in Callers :
       /\ (RouteArrives(c) /\ route'[c].key # "" /\ ~FreshEntry(route'[c].key)
             /\ FreshPrefixes(route'[c].key) # {})
            => /\ callers'[c].pc = "done"
               /\ callers'[c].result = Ok(CachedPayload(LongestFreshPrefix(route'[c].key)))
               /\ stationInFlight'[route'[c].key] # <<>>
               /\ stationInFlight[route'[c].key] # <<>> =>
                    (nextP' = nextP /\ stationInFlight' = stationInFlight)
               /\ route'[c].bg = stationInFlight'[route'[c].key][1]
               /\ route'[c].caught
       /\ route[c].via = "prefix"
            => /\ callers'[c] = callers[c]
               /\ callers[c].pc = "done" /\ callers[c].result.ok
    ]_vars

\* C33 witness: the request for "rott" was answered with the payload of
\* "rot" while the shorter prefix "ro" is cached and fresh with another
\* payload, and its background resolution has failed.
C33_Witness ==
  \E c \in Callers :
    /\ route[c].via = "prefix"
    /\ route[c].key = "rott"
    /\ FreshEntry("rot") /\ FreshEntry("ro")
    /\ CachedPayload("rot") # CachedPayload("ro")
    /\ callers[c].result = Ok(CachedPayload("rot"))
    /\ promises[route[c].bg].phase = "rejected"

(***************************************************************************)
(* The cap of the station cache                                            *)
(***************************************************************************)
\* the keys and the write timestamps of a station cache
KeysOf(cache) == {cache[i].key : i \in 1..Len(cache)}
StampsOf(cache) == {cache[i].t : i \in 1..Len(cache)}

\* C34: after every stationCacheSet the station cache holds at most
\* STATION_MAX_KEYS entries; entries are removed only when the cap is
\* exceeded, those removed have the oldest write timestamps, and the entry
\* just written is never among them.  (after, evicted and stamps are the
\* keys after the write, the positions of the entries whose key is gone,
\* and the timestamps after the write.)
C34_CapEvictsOldest ==
  [][cacheWrites' # cacheWrites =>
       \A after \in {KeysOf(stationCache')} :
       \A evicted \in {{i \in 1..Len(stationCache) : stationCache[i].key \notin after}} :
       \A stamps \in {StampsOf(stationCache')} :
         /\ Len(stationCache') <= STATION_MAX_KEYS
         /\ evicted # {} => Len(stationCache) >= STATION_MAX_KEYS
         /\ \A i \in evicted : \A x \in stamps : stationCache[i].t <= x
         /\ LET before == Range(stationCache)
            IN \/ stationCache' = stationCache
               \/ \E i \in 1..Len(stationCache') :
                    /\ stationCache'[i].t = now
                    /\ stationCache'[i] \notin before
    ]_vars

\* C34 witness: the cache is at its cap after a write that exceeded it:
\* the oldest key "1" is gone, the key written now is there.
C34_Witness ==
  /\ Len(stationCache) = STATION_MAX_KEYS
  /\ CacheIndex(stationCache, "1") = 0
  /\ CacheIndex(stationCache, "2") # 0
  /\ CacheIndex(stationCache, "rot") # 0
  /\ stationCache[CacheIndex(stationCache, "rot")].t = now
  /\ now > 0

(***************************************************************************)
(* Expired cache entries                                                   *)
(***************************************************************************)
\* an entry of k is held past its TTL, in each of the caches
TripExpired(k) == tripCache[k] # <<>> /\ now - tripCache[k][1].t > TRIP_TTL_MS
StationExpired(k) ==
  CacheIndex(stationCache, k) # 0
    /\ now - stationCache[CacheIndex(stationCache, k)].t > STATION_TTL_MS
OvExpired(k) == ovCache[k] # <<>> /\ now - ovCache[k][1].t > OV_TTL_MS

\* C35: in every in-process cache an entry whose TTL has expired is
\* eventually gone (removed, or replaced by a new write), even if its key
\* is never read again.
C35_ExpiredEntriesRemoved ==
  /\ \A k \in PrefixKeys : StationExpired(k) ~> ~StationExpired(k)
  /\ \A k \in Keys : TripExpired(k) ~> ~TripExpired(k)
  /\ OvExpired(OvKey) ~> ~OvExpired(OvKey)

\* C35 (what the code does): an expired entry of the station cache is
\* eventually gone: the sweep removes it.
C35_StationEntriesSwept ==
  \A k \in PrefixKeys : StationExpired(k) ~> ~StationExpired(k)

(***************************************************************************)
(* Overlapping searches and the trip response cache                        *)
(***************************************************************************)
\* C36: the trip response cache entry of a key is never replaced by the
\* result of a search that started before the search whose result is
\* stored.
C36_OlderSearchNeverOverwrites ==
  [][(tripCache[OverlapKey] # <<>> /\ tripCache'[OverlapKey] # <<>>)
       => tripCache'[OverlapKey][1].payload[1].search
            >= tripCache[OverlapKey][1].payload[1].search]_vars

\* C36 (what the code does): a stored result is that of a search that has
\* started, and its timestamp is the time of the write.
C36_StoredResultIsOfStartedSearch ==
  tripCache[OverlapKey] # <<>> =>
    /\ tripCache[OverlapKey][1].payload[1].search \in 1..ovl.started
    /\ tripCache[OverlapKey][1].t <= now

(***************************************************************************)
(* The order of the departure rows                                         *)
(***************************************************************************)
\* the time a row shows: safeParseTime(depIso)
RowTime(d) == safeParseTime(DepIso(d))[1]

\* C37: the rows of the departure panel are in ascending expectedTime
\* order, in whatever order the departures were given, in the primary and
\* in the fallback window.
C37_RowsAscending ==
  OvShown => \A i, j \in 1..Len(RowDeps) :
               i < j => RowTime(RowDeps[i]) <= RowTime(RowDeps[j])

\* C37 (what the code does): the rows follow the order of the departures
\* given: each row comes later in the board than the row before it.
C37_RowsInBoardOrder ==
  OvShown => \A i, j \in 1..Len(RowDeps) :
               i < j => \E a, b \in 1..Len(ovPanel.deps) :
                          /\ a < b
                          /\ ovPanel.deps[a] = RowDeps[i]
                          /\ ovPanel.deps[b] = RowDeps[j]

(***************************************************************************)
(* The departure-board fetch of one stop code                              *)
(***************************************************************************)
\* the attempts of stop s that failed
FailedAttempts(s) == {i \in 1..Len(ovf[s].seen) : ovf[s].seen[i] # "ok"}

AutoQuiet == \A n \in Loads : auto.flights[n].st = "none"
\* what the list shows for query q
ListFor(q) == IF q \in TooShort THEN "" ELSE q

\* C39: once every response has arrived the suggestion list shows the
\* results of the most recently issued query (unless that query's own
\* fetch failed), and no response of an earlier query replaces the list of
\* a later query.
C39_ListShowsLatestQuery ==
  (AutoQuiet /\ auto.issued > 0 /\ ~auto.lastFailed) => auto.list = ListFor(auto.last)

\* C39 (what the code does): when the most recent query missed the cache
\* and its fetch was answered, the list shows that query, since starting
\* it aborted the fetch before it.
C39_LatestFetchWins ==
  (AutoQuiet /\ auto.ctrl = auto.issued /\ auto.issued > 0 /\ ~auto.lastFailed)
    => auto.list = auto.last

====
